---- MODULE Spec2Model ----
(***************************************************************************)
(* Model of postman_ingestion.py: the HTTP request layer (_request), the   *)
(* async task poller, the workspace / collection managers, the script      *)
(* injector and the server-to-tier mapping of setup_all_environments.      *)
(*                                                                         *)
(* Specifications:                                                         *)
(*   SpecReq   one invocation of _request against a scripted server        *)
(*   SpecPoll  one invocation of poll_task against scripted task fetches   *)
(*   SpecSetup the server loop of setup_all_environments                   *)
(*   Spec      handler calls against the vendor's remote state             *)
(*   SpecWorkspace  get_or_create_workspace against the vendor's account   *)
(*   SpecUpsert     upsert_spec against the vendor's specs                 *)
(*   SpecEnv        setup_all_environments, tier by tier                   *)
(*   SpecExport     export_environment with its redaction                  *)
(*   SpecMain       one run of main() through its six steps                *)
(*   SpecProbe      get_or_create_workspace with an ID, on scripted probes *)
(***************************************************************************)
EXTENDS Integers, Sequences, FiniteSets, TLC

VARIABLES
    script,          \* SpecReq: the responses the server gives, call by call
    suppress_errors, \* SpecReq: the suppress_errors argument
    rq,              \* SpecReq: the state of the running _request invocation
    pollScript,      \* SpecPoll: what each fetch of the task resource yields
    max_attempts,    \* SpecPoll: the max_attempts argument
    pl,              \* SpecPoll: the state of the running poll_task invocation
    servers,         \* SpecSetup: spec_data["servers"]
    su,              \* SpecSetup: the state of setup_all_environments
    workspaces,      \* Spec: the vendor's workspaces, in listing order
    collections,     \* Spec: the vendor's collections, in listing order
    nextId,          \* Spec: the next identifier the vendor hands out
    last,            \* Spec: what the last handler call did
    specs,           \* SpecUpsert: the vendor's specs, in listing order
    up,              \* SpecUpsert: what the last upsert_spec call did
    environments,    \* SpecEnv: the vendor's environments, in listing order
    ev,              \* SpecEnv: the state of setup_all_environments
    ex,              \* SpecExport: environments to export and the files written
    run,             \* SpecMain: the state of one run of main()
    probeScript,     \* SpecProbe: the responses to GET /workspaces/{id}
    pb               \* SpecProbe: the state of get_or_create_workspace(id, name)

reqVars == <<script, suppress_errors, rq>>
pollVars == <<pollScript, max_attempts, pl>>
setupVars == <<servers, su>>
remoteVars == <<workspaces, collections, nextId, last>>
upsertVars == <<specs, up>>
envVars == <<environments, ev>>
exportVars == <<ex>>
mainVars == <<run>>
probeVars == <<probeScript, pb>>

(***************************************************************************)
(* Bounds and program constants                                            *)
(***************************************************************************)
\* Number of scripted server responses (one more than _request can consume).
MaxScript == 4

\* Number of scripted task fetches, and the largest max_attempts tried.
MaxPollScript == 3

\* Longest server list of the spec document.
MaxServers == 2

\* Workspaces the vendor holds before the model stops creating them.
MaxWorkspaces == 3

\* Collections the vendor generates before the model stops generating them.
MaxGenerated == 1

\* Attempts of the poll that generate_collection starts (30 in the code).
PollBudget == 3

\* Specs the vendor holds before the model stops creating them.
MaxSpecs == 3

\* Longest "values" list of an environment that is exported.
MaxEntries == 2

\* max_retries = 3
max_retries == 3

\* response.headers.get("Retry-After", 60)
DefaultRetryAfter == 60

(***************************************************************************)
(* HTTP responses                                                          *)
(***************************************************************************)
\* status of an attempt that obtained no HTTP response (session.request raised
\* a requests ConnectionError / Timeout, which is not an HTTPError)
NetFail == 0

\* retryAfter value of a response without a Retry-After header
NoHeader == -1

EmptyMap == {}

\* body of a 200 answer to GET /workspaces/{id} that holds the workspace
WorkspaceBody == "{\"workspace\":{\"id\":1}}"

\* response.json(): the mapping parsed from the body text
ParseJson(text) ==
    CASE text = "{}" -> EmptyMap
      [] text = WorkspaceBody -> {<<"workspace", 1>>}
      [] text = "{\"id\":7}" -> {<<"id", 7>>}
      [] OTHER -> {<<"raw", text>>}

\* return response.json() if response.text else {}
BodyOf(resp) == IF resp.text = "" THEN EmptyMap ELSE ParseJson(resp.text)

Responses ==
    {[status |-> 200, retryAfter |-> NoHeader, text |-> t] : t \in {"", "{\"id\":7}"}}
    \cup {[status |-> s, retryAfter |-> NoHeader, text |-> "{}"] : s \in {404, 500}}
    \cup {[status |-> 429, retryAfter |-> r, text |-> ""] : r \in {NoHeader, 2}}
    \cup {[status |-> NetFail, retryAfter |-> NoHeader, text |-> ""]}

IsRateLimited(resp) == resp.status = 429
IsNetFail(resp) == resp.status = NetFail
\* raise_for_status() raises HTTPError for 4xx and 5xx
IsHTTPError(resp) == resp.status >= 400 /\ resp.status # 429
IsSuccess(resp) == resp.status >= 200 /\ resp.status < 400

\* int(response.headers.get("Retry-After", 60))
RetryAfterOf(resp) ==
    IF resp.retryAfter = NoHeader THEN DefaultRetryAfter ELSE resp.retryAfter

(***************************************************************************)
(* _request: one loop iteration per HTTP call                              *)
(***************************************************************************)
NoResult == {<<"none", 0>>}

RqStart ==
    [pc |-> "run", attempt |-> 0, calls |-> 0, sleeps |-> <<>>,
     result |-> NoResult, exc |-> "none", logged |-> FALSE, last |-> 0]

\* session.request raised before any response: not caught by the
\* `except HTTPError` clause, so it leaves _request at once
OnNetFail(st) ==
    [st EXCEPT !.pc = "raised", !.exc = "ConnectionError", !.calls = @ + 1]

\* a rate-limit branch that retries without using up a loop iteration
OnRateLimited_NoCount(st, resp) ==
    [st EXCEPT !.calls = @ + 1,
               !.sleeps = Append(@, RetryAfterOf(resp))]

\* status 429: sleep(retry_after); continue  (the loop counter still advances)
OnRateLimited(st, resp) ==
    [st EXCEPT !.calls = @ + 1,
               !.sleeps = Append(@, RetryAfterOf(resp)),
               !.attempt = @ + 1]

\* a retry loop whose last-attempt test is off by one: the third failure is
\* slept on and retried instead of raised
OnHTTPError_OffByOne(st, suppress) ==
    IF st.attempt = max_retries
    THEN [st EXCEPT !.pc = "raised", !.exc = "HTTPError",
                    !.calls = @ + 1, !.logged = ~suppress]
    ELSE [st EXCEPT !.calls = @ + 1,
                    !.sleeps = Append(@, 2 ^ st.attempt),
                    !.attempt = @ + 1]

\* except HTTPError: raise on the last attempt (logging unless suppress_errors),
\* otherwise sleep(2 ** attempt) and go round again
OnHTTPError(st, suppress) ==
    IF st.attempt = max_retries - 1
    THEN [st EXCEPT !.pc = "raised", !.exc = "HTTPError",
                    !.calls = @ + 1, !.logged = ~suppress]
    ELSE [st EXCEPT !.calls = @ + 1,
                    !.sleeps = Append(@, 2 ^ st.attempt),
                    !.attempt = @ + 1]

\* return response.json() if response.text else {}
OnSuccess(st, resp) ==
    [st EXCEPT !.pc = "returned", !.calls = @ + 1, !.result = BodyOf(resp)]

\* for attempt in range(max_retries) is exhausted: return {}
OnLoopExhausted(st) ==
    [st EXCEPT !.pc = "returned", !.result = EmptyMap]

LoopExhausted(st) == st.pc = "run" /\ st.attempt >= max_retries
CanAttempt(st) == st.pc = "run" /\ st.attempt < max_retries

\* one iteration of the loop body on the response `resp`
RequestStep(st, resp, suppress) ==
    LET st1 == [st EXCEPT !.last = resp.status] IN
    CASE IsNetFail(resp) -> OnNetFail(st1)
      [] IsRateLimited(resp) -> OnRateLimited(st1, resp)
      [] IsHTTPError(resp) -> OnHTTPError(st1, suppress)
      [] OTHER -> OnSuccess(st1, resp)

\* the whole invocation on a scripted server
RECURSIVE RequestFrom(_, _, _)
RequestFrom(st, resps, suppress) ==
    IF LoopExhausted(st) THEN OnLoopExhausted(st)
    ELSE IF st.pc # "run" \/ resps = <<>> THEN st
    ELSE RequestFrom(RequestStep(st, Head(resps), suppress), Tail(resps), suppress)

RunRequest(resps, suppress) == RequestFrom(RqStart, resps, suppress)

(***************************************************************************)
(* What a caller of _request sees                                          *)
(***************************************************************************)
\* "ok": a 2xx was obtained and its body returned; "dropped": the loop ran out
\* on a 429 and {} was returned; otherwise the exception that left _request
RequestOutcome(st) ==
    CASE st.pc = "raised" -> st.exc
      [] st.pc = "returned" /\ st.last >= 200 /\ st.last < 400 -> "ok"
      [] OTHER -> "dropped"

\* every way a call of _request (without suppress_errors) can end
RequestOutcomes ==
    {RequestOutcome(RunRequest(s, FALSE)) : s \in [1..max_retries -> Responses]}

Raising == {"HTTPError", "ConnectionError"}

(***************************************************************************)
(* poll_task                                                               *)
(***************************************************************************)
NoTask == [status |-> "none", resources |-> <<>>]

\* bodies of the task resource
TaskBodies ==
    {[status |-> "pending", resources |-> <<>>],
     [status |-> "failed", resources |-> <<>>]}
    \cup {[status |-> "completed", resources |-> r] : r \in {<<>>, <<11>>, <<12, 11>>}}

\* what one `self._request("GET", task_url)` yields: the task body on "ok",
\* {} (no status) when dropped, or an exception
Fetches ==
    {[outcome |-> "ok", task |-> t] : t \in TaskBodies}
    \cup {[outcome |-> o, task |-> NoTask] : o \in RequestOutcomes \ {"ok"}}

PlStart ==
    [pc |-> "run", i |-> 0, fetches |-> 0, sleeps |-> 0,
     result |-> NoTask, exc |-> "none"]

\* a poller that only looks for "completed": a failed task is polled on
PollStep_IgnoresFailed(st, f) ==
    IF f.outcome \in Raising
    THEN [st EXCEPT !.pc = "raised", !.exc = f.outcome, !.fetches = @ + 1]
    ELSE IF f.task.status = "completed"
    THEN [st EXCEPT !.pc = "returned", !.result = f.task, !.fetches = @ + 1]
    ELSE [st EXCEPT !.fetches = @ + 1, !.sleeps = @ + 1, !.i = @ + 1]

\* one iteration of `for i in range(max_attempts)`
PollStep(st, f) ==
    IF f.outcome \in Raising
    THEN [st EXCEPT !.pc = "raised", !.exc = f.outcome, !.fetches = @ + 1]
    ELSE IF f.task.status = "completed"
    THEN [st EXCEPT !.pc = "returned", !.result = f.task, !.fetches = @ + 1]
    ELSE IF f.task.status = "failed"
    THEN [st EXCEPT !.pc = "raised", !.exc = "TaskFailed",
                    !.result = f.task, !.fetches = @ + 1]
    ELSE [st EXCEPT !.fetches = @ + 1, !.sleeps = @ + 1, !.i = @ + 1]

\* raise Exception("Task polling timed out")
PollTimedOut(st) == [st EXCEPT !.pc = "raised", !.exc = "TaskTimeout"]

CanPoll(st, max) == st.pc = "run" /\ st.i < max
PollExhausted(st, max) == st.pc = "run" /\ st.i >= max

RECURSIVE PollFrom(_, _, _)
PollFrom(st, fs, max) ==
    IF PollExhausted(st, max) THEN PollTimedOut(st)
    ELSE IF st.pc # "run" \/ fs = <<>> THEN st
    ELSE PollFrom(PollStep(st, Head(fs)), Tail(fs), max)

\* poll_task(task_url, max_attempts) against scripted fetches
RunPoll(fs, max) == PollFrom(PlStart, fs, max)

IdlePoll ==
    /\ pollScript = <<>>
    /\ max_attempts = 0
    /\ pl = PlStart

(***************************************************************************)
(* Strings: sequences of characters (a long literal may be one chunk)      *)
(***************************************************************************)
\* str.lower() on the letters that occur
LowerCh(c) ==
    CASE c = "P" -> "p" [] c = "R" -> "r" [] c = "O" -> "o" [] c = "D" -> "d"
      [] c = "U" -> "u" [] c = "A" -> "a" [] c = "T" -> "t" [] c = "Q" -> "q"
      [] c = "E" -> "e" [] c = "V" -> "v"
      [] OTHER -> c

ToLower(str) == [i \in 1..Len(str) |-> LowerCh(str[i])]

\* `sub in str`
Contains(str, sub) ==
    \E i \in 1..(Len(str) - Len(sub) + 1) : SubSeq(str, i, i + Len(sub) - 1) = sub

StartsWith(str, sub) == Len(str) >= Len(sub) /\ SubSeq(str, 1, Len(sub)) = sub

\* str.replace(old, ""): every occurrence, left to right
RECURSIVE RemoveAll(_, _)
RemoveAll(str, old) ==
    IF str = <<>> THEN <<>>
    ELSE IF StartsWith(str, old)
    THEN RemoveAll(SubSeq(str, Len(old) + 1, Len(str)), old)
    ELSE <<Head(str)>> \o RemoveAll(Tail(str), old)

\* str.split(sep)[0] for a one-character separator
RECURSIVE BeforeFirst(_, _)
BeforeFirst(str, sep) ==
    IF str = <<>> \/ Head(str) = sep THEN <<>>
    ELSE <<Head(str)>> \o BeforeFirst(Tail(str), sep)

Https == <<"h", "t", "t", "p", "s", ":", "/", "/">>
Http == <<"h", "t", "t", "p", ":", "/", "/">>

KwProd == <<"p", "r", "o", "d">>
KwUat == <<"u", "a", "t">>
KwQa == <<"q", "a">>
KwDev == <<"d", "e", "v">>

(***************************************************************************)
(* setup_all_environments: servers -> env_mapping                          *)
(***************************************************************************)
\* DEFAULT_ENVIRONMENTS, in its insertion order
DefaultTiers == <<"Dev", "QA", "UAT", "Prod">>

DefaultHost(tier) ==
    CASE tier = "Dev" -> <<"api-dev.payments.example.com">>
      [] tier = "QA" -> <<"api-qa.payments.example.com">>
      [] tier = "UAT" -> <<"api-uat.payments.example.com">>
      [] tier = "Prod" -> <<"api.payments.example.com">>

\* host = url.replace("https://", "").replace("http://", "").split("/")[0]
HostOf(url) == BeforeFirst(RemoveAll(RemoveAll(url, Https), Http), "/")

\* a chain that tests the keywords in the opposite order
TierOf_DevFirst(description) ==
    LET desc == ToLower(description) IN
    IF Contains(desc, KwDev) THEN "Dev"
    ELSE IF Contains(desc, KwQa) THEN "QA"
    ELSE IF Contains(desc, KwUat) THEN "UAT"
    ELSE IF Contains(desc, KwProd) THEN "Prod"
    ELSE "none"

\* the if / elif chain on desc = server.get("description", "").lower()
TierOf(description) ==
    LET desc == ToLower(description) IN
    IF Contains(desc, KwProd) THEN "Prod"
    ELSE IF Contains(desc, KwUat) THEN "UAT"
    ELSE IF Contains(desc, KwQa) THEN "QA"
    ELSE IF Contains(desc, KwDev) THEN "Dev"
    ELSE "none"

\* a dict as the sequence of its <<key, value>> items in insertion order
DictHas(d, k) == \E i \in 1..Len(d) : d[i][1] = k
DictGet(d, k) == d[CHOOSE i \in 1..Len(d) : d[i][1] = k][2]
DictKeys(d) == [i \in 1..Len(d) |-> d[i][1]]

\* a mapping that keeps the value a key got first
DictSet_KeepFirst(d, k, v) ==
    IF DictHas(d, k) THEN d ELSE Append(d, <<k, v>>)

\* d[k] = v: a present key keeps its place and takes the new value
DictSet(d, k, v) ==
    IF DictHas(d, k)
    THEN [i \in 1..Len(d) |-> IF d[i][1] = k THEN <<k, v>> ELSE d[i]]
    ELSE Append(d, <<k, v>>)

\* the body of `for server in servers`
MapOneServer(env_mapping, server) ==
    LET tier == TierOf(server.description) IN
    IF tier = "none" THEN env_mapping
    ELSE DictSet(env_mapping, tier, HostOf(server.url))

\* for env_name, default_host in DEFAULT_ENVIRONMENTS.items(): fill the gaps
RECURSIVE FillFrom(_, _)
FillFrom(env_mapping, tiers) ==
    IF tiers = <<>> THEN env_mapping
    ELSE FillFrom(IF DictHas(env_mapping, Head(tiers))
                  THEN env_mapping
                  ELSE Append(env_mapping, <<Head(tiers), DefaultHost(Head(tiers))>>),
                  Tail(tiers))

WithDefaults(env_mapping) == FillFrom(env_mapping, DefaultTiers)

\* descriptions and URLs of the spec's servers ("" when the key is missing)
Descriptions ==
    {<<"P", "r", "o", "d", "u", "c", "t", "i", "o", "n">>,
     <<"U", "A", "T">>,
     <<"q", "a">>,
     <<"D", "e", "v">>,
     <<"p", "r", "e", "-", "p", "r", "o", "d", " ", "U", "a", "t">>,
     <<"s", "t", "a", "g", "e">>,
     <<>>}

Urls ==
    {Https \o <<"a", "/", "v">>,
     Https \o <<"b">>,
     Http \o <<"c", "/">>,
     <<"d", "/", "x">>,
     <<>>}

Servers == {[url |-> u, description |-> d] : u \in Urls, d \in Descriptions}

ServerLists == UNION {[1..n -> Servers] : n \in 0..MaxServers}

SuStart == [pc |-> "servers", idx |-> 0, env_mapping |-> <<>>]

IdleSetup ==
    /\ servers = <<>>
    /\ su = SuStart

(***************************************************************************)
(* The vendor's resources and the identifiers the client holds             *)
(***************************************************************************)
None == [kind |-> "none", n |-> 0]
Id(n) == [kind |-> "id", n |-> n]
Uid(n) == [kind |-> "uid", n |-> n]

\* info.title of the spec documents
Titles == {"Refund API", "Ledger API"}

\* workspace_name=f"{spec_name} Workspace"
WorkspaceNameOf(title) == <<title, " Workspace">>

\* name = workspace_name or "API-Ingestion-Workspace"
NameOrFallback(workspace_name) ==
    IF workspace_name = <<>> THEN <<"API-Ingestion-Workspace">> ELSE workspace_name

\* spec_name as a collection name
CollectionNameOf(title) == <<title>>

\* a request for one resource by identifier can only be answered 2xx when the
\* resource exists; every other end of _request stays possible
OutcomesFor(exists) ==
    IF exists THEN RequestOutcomes ELSE RequestOutcomes \ {"ok"}

NoCalls == <<>>

(***************************************************************************)
(* The record of a handler call                                            *)
(***************************************************************************)
NoResponse == [shape |-> "none", collection |-> None, url |-> None]
NoPoll == [pc |-> "none", exc |-> "none", resources |-> <<>>, fetched |-> FALSE]

NoCall ==
    [op |-> "none", workspace_id |-> None, name |-> <<>>, collection_id |-> None,
     calls |-> NoCalls, ret |-> None, raised |-> "none", logs |-> {},
     outcome |-> "none", fetched |-> FALSE, got |-> <<>>, puts |-> <<>>,
     existing |-> None, response |-> NoResponse, polled |-> None, task |-> NoPoll]

(***************************************************************************)
(* Workspace manager                                                       *)
(***************************************************************************)
WorkspaceExists(wss, ref) == \E i \in 1..Len(wss) : wss[i].id = ref.n

\* get_workspace: result.get("workspace"), None on HTTPError; any other
\* exception leaves it
GetWorkspace(wss, workspace_id, o) ==
    [calls |-> <<"GET /workspaces/{id}">>,
     raised |-> IF o = "ConnectionError" THEN o ELSE "none",
     found |-> o = "ok" /\ WorkspaceExists(wss, workspace_id)]

\* create_workspace: result.get("workspace", {}).get("id")
CreateWorkspace(wss, fresh, name, o) ==
    [calls |-> <<"POST /workspaces">>,
     raised |-> IF o \in Raising THEN o ELSE "none",
     id |-> IF o = "ok" THEN Id(fresh) ELSE None,
     workspaces |-> IF o = "ok"
                    THEN Append(wss, [id |-> fresh, name |-> name])
                    ELSE wss]

\* get_or_create_workspace
GetOrCreateWorkspace(wss, fresh, workspace_id, workspace_name, oGet, oCreate) ==
    LET probed == workspace_id # None
        probe == IF probed
                 THEN GetWorkspace(wss, workspace_id, oGet)
                 ELSE [calls |-> NoCalls, raised |-> "none", found |-> FALSE]
        made == CreateWorkspace(wss, fresh, NameOrFallback(workspace_name), oCreate)
        warn == IF probed THEN {"warning: workspace not found, creating new"} ELSE {}
    IN  IF probe.raised # "none"
        THEN [calls |-> probe.calls, raised |-> probe.raised, ret |-> None,
              workspaces |-> wss, logs |-> {}]
        ELSE IF probe.found
        THEN [calls |-> probe.calls, raised |-> "none", ret |-> workspace_id,
              workspaces |-> wss, logs |-> {}]
        ELSE [calls |-> probe.calls \o made.calls, raised |-> made.raised,
              ret |-> made.id, workspaces |-> made.workspaces, logs |-> warn]

(***************************************************************************)
(* Collection manager                                                      *)
(***************************************************************************)
\* what polling with the default max_attempts can end in, as far as
\* generate_collection looks at it
PollOutcome(st) ==
    [pc |-> st.pc, exc |-> st.exc, resources |-> st.result.resources,
     fetched |-> st.fetches > 0]

PollOutcomes ==
    {PollOutcome(RunPoll(fs, PollBudget)) : fs \in [1..PollBudget -> Fetches]}

\* the collections of a workspace, in listing order
RECURSIVE InWorkspace(_, _)
InWorkspace(cols, ws) ==
    IF cols = <<>> THEN <<>>
    ELSE IF Head(cols).ws = ws.n
    THEN <<Head(cols)>> \o InWorkspace(Tail(cols), ws)
    ELSE InWorkspace(Tail(cols), ws)

\* result.get("collections", []) of GET /collections?workspaceId=...
Listing(cols, ws, o) == IF o = "ok" THEN InWorkspace(cols, ws) ELSE <<>>

\* for col in ...: if col.get("name") == name: return col
RECURSIVE FirstNamed(_, _)
FirstNamed(listing, name) ==
    IF listing = <<>> THEN None
    ELSE IF Head(listing).name = name THEN Uid(Head(listing).id)
    ELSE FirstNamed(Tail(listing), name)

\* find_collection_by_name
FindCollectionByName(cols, ws, name, o) ==
    [calls |-> <<"GET /collections?workspaceId">>,
     raised |-> IF o \in Raising THEN o ELSE "none",
     existing |-> FirstNamed(Listing(cols, ws, o), name)]

\* the generated collection as the vendor stores it
Generated(fresh, ws, name) ==
    [id |-> fresh, ws |-> ws.n, name |-> name, event |-> <<>>, item |-> "requests"]

\* the identifiers a completed task lists: the new collection first, then
\* resources of other kinds
ResourcesOf(task, fresh) ==
    [i \in 1..Len(task.resources) |-> IF i = 1 THEN Id(fresh) ELSE Id(0)]

\* what POST /specs/{id}/generations/collection answers: the collection
\* embedded (synchronous) or a task id with its polling URL (asynchronous)
GenerationResponse(o, shape, fresh) ==
    IF o # "ok" THEN NoResponse
    ELSE IF shape = "sync"
    THEN [shape |-> "sync", collection |-> Id(fresh), url |-> None]
    ELSE [shape |-> "async", collection |-> None, url |-> [kind |-> "task", n |-> fresh]]

\* a generator that takes the last listed resource of the task
GenerateCollection_LastResource(cols, fresh, ws, name, oList, oGen, shape, task) ==
    LET find == FindCollectionByName(cols, ws, name, oList)
        response == GenerationResponse(oGen, shape, fresh)
        post == <<"POST /specs/{id}/generations/collection">>
        polls == IF task.fetched THEN <<"GET {task_url}">> ELSE <<>>
        resources == ResourcesOf(task, fresh)
        base == [calls |-> find.calls, raised |-> "none", ret |-> None,
                 collections |-> cols, logs |-> {}, existing |-> find.existing,
                 response |-> NoResponse, polled |-> None, task |-> NoPoll]
    IN  IF find.raised # "none" THEN [base EXCEPT !.raised = find.raised]
        ELSE IF find.existing # None
        THEN [base EXCEPT !.ret = find.existing,
                          !.logs = {"info: found existing collection"}]
        ELSE IF oGen \in Raising
        THEN [base EXCEPT !.calls = @ \o post, !.raised = oGen]
        ELSE IF response.shape = "async"
        THEN LET polled == [base EXCEPT !.calls = @ \o post \o polls,
                                        !.response = response,
                                        !.polled = response.url,
                                        !.task = [task EXCEPT !.resources = resources]]
             IN  IF task.pc = "raised" THEN [polled EXCEPT !.raised = task.exc]
                 ELSE IF resources = <<>>
                 THEN [polled EXCEPT !.logs = {"error: no collection in task result"}]
                 ELSE [polled EXCEPT !.ret = resources[Len(resources)],
                                     !.collections =
                                         Append(cols, Generated(fresh, ws, name))]
        ELSE [base EXCEPT !.calls = @ \o post,
                          !.response = response,
                          !.ret = response.collection,
                          !.collections =
                              IF response.shape = "sync"
                              THEN Append(cols, Generated(fresh, ws, name))
                              ELSE cols]

\* generate_collection
GenerateCollection(cols, fresh, ws, name, oList, oGen, shape, task) ==
    LET find == FindCollectionByName(cols, ws, name, oList)
        response == GenerationResponse(oGen, shape, fresh)
        post == <<"POST /specs/{id}/generations/collection">>
        polls == IF task.fetched THEN <<"GET {task_url}">> ELSE <<>>
        resources == ResourcesOf(task, fresh)
        base == [calls |-> find.calls, raised |-> "none", ret |-> None,
                 collections |-> cols, logs |-> {}, existing |-> find.existing,
                 response |-> NoResponse, polled |-> None, task |-> NoPoll]
    IN  IF find.raised # "none" THEN [base EXCEPT !.raised = find.raised]
        ELSE IF find.existing # None
        THEN [base EXCEPT !.ret = find.existing,
                          !.logs = {"info: found existing collection"}]
        ELSE IF oGen \in Raising
        THEN [base EXCEPT !.calls = @ \o post, !.raised = oGen]
        ELSE IF response.shape = "async"
        THEN LET polled == [base EXCEPT !.calls = @ \o post \o polls,
                                        !.response = response,
                                        !.polled = response.url,
                                        !.task = [task EXCEPT !.resources = resources]]
             IN  IF task.pc = "raised" THEN [polled EXCEPT !.raised = task.exc]
                 ELSE IF resources = <<>>
                 THEN [polled EXCEPT !.logs = {"error: no collection in task result"}]
                 ELSE [polled EXCEPT !.ret = resources[1],
                                     !.collections =
                                         Append(cols, Generated(fresh, ws, name))]
        ELSE [base EXCEPT !.calls = @ \o post,
                          !.response = response,
                          !.ret = response.collection,
                          !.collections =
                              IF response.shape = "sync"
                              THEN Append(cols, Generated(fresh, ws, name))
                              ELSE cols]

(***************************************************************************)
(* Script injector                                                         *)
(***************************************************************************)
\* str.split(sep) for a one-chunk separator
RECURSIVE Split(_, _)
Split(str, sep) ==
    IF \A i \in 1..Len(str) : str[i] # sep THEN <<str>>
    ELSE <<BeforeFirst(str, sep)>>
             \o Split(SubSeq(str, Len(BeforeFirst(str, sep)) + 2, Len(str)), sep)

\* JWT_PREREQUEST_SCRIPT (the lines that read or write environment variables)
JWT_PREREQUEST_SCRIPT ==
    <<"// Token caching with automatic refresh", "\n",
      "const tokenExpiry = pm.environment.get(\"", "token_expiry", "\");", "\n",
      "const cachedToken = pm.environment.get(\"", "jwt_token", "\");", "\n",
      "pm.sendRequest({url: tokenUrl, method: 'POST'}, (err, response) => {", "\n",
      "pm.environment.set(\"", "jwt_token", "\", data.access_token);", "\n",
      "});">>

\* str(list of strings)
RECURSIVE ReprItems(_)
ReprItems(lines) ==
    IF lines = <<>> THEN <<>>
    ELSE <<"'">> \o Head(lines) \o <<"'">>
             \o (IF Len(lines) > 1 THEN <<", ">> ELSE <<>>)
             \o ReprItems(Tail(lines))

StrOfList(lines) == <<"[">> \o ReprItems(lines) \o <<"]">>

\* e.get("listen") == "prerequest" and
\*     "jwt_token" in str(e.get("script", {}).get("exec", []))
IsJwtPrerequest(e) ==
    /\ e.listen = "prerequest"
    /\ Contains(StrOfList(e.script.exec), <<"jwt_token">>)

\* has_prerequest = any(... for e in events)
HasPrerequest(events) == \E i \in 1..Len(events) : IsJwtPrerequest(events[i])

\* prerequest_event = {"listen": "prerequest", "script": {...}}
prerequest_event ==
    [listen |-> "prerequest",
     script |-> [type |-> "text/javascript",
                 exec |-> Split(JWT_PREREQUEST_SCRIPT, "\n")]]

\* a filter that drops nothing: earlier prerequest events stay in the list
WithoutPrerequest_KeepAll(events) == events

\* [e for e in events if e.get("listen") != "prerequest"]
RECURSIVE WithoutPrerequest(_)
WithoutPrerequest(events) ==
    IF events = <<>> THEN <<>>
    ELSE IF Head(events).listen # "prerequest"
    THEN <<Head(events)>> \o WithoutPrerequest(Tail(events))
    ELSE WithoutPrerequest(Tail(events))

CollectionExists(cols, ref) == \E i \in 1..Len(cols) : cols[i].id = ref.n
CollectionAt(cols, ref) == CHOOSE i \in 1..Len(cols) : cols[i].id = ref.n

\* add_jwt_prerequest_script
AddJwtPrerequestScript(cols, collection_id, oGet, oPut) ==
    LET get == <<"GET /collections/{id}">>
        put == <<"PUT /collections/{id}">>
        base == [calls |-> get, raised |-> "none", logs |-> {},
                 collections |-> cols, outcome |-> "raised",
                 fetched |-> FALSE, got |-> <<>>, puts |-> <<>>]
    IN  IF oGet \in Raising THEN [base EXCEPT !.raised = oGet]
        ELSE IF oGet # "ok"
        THEN [base EXCEPT !.logs = {"warning: could not fetch collection"},
                          !.outcome = "not fetched"]
        ELSE LET at == CollectionAt(cols, collection_id)
                 collection == cols[at]
                 events == collection.event
                 written == [collection EXCEPT
                                !.event = Append(WithoutPrerequest(events),
                                                 prerequest_event)]
             IN  IF HasPrerequest(events)
                 THEN [base EXCEPT !.logs = {"info: JWT script already present"},
                                   !.outcome = "skipped", !.fetched = TRUE,
                                   !.got = <<collection>>]
                 ELSE IF oPut \in Raising
                 THEN [base EXCEPT !.calls = get \o put, !.raised = oPut,
                                   !.fetched = TRUE, !.got = <<collection>>,
                                   !.puts = <<written>>]
                 ELSE [base EXCEPT !.calls = get \o put,
                                   !.outcome = "updated",
                                   !.fetched = TRUE, !.got = <<collection>>,
                                   !.puts = <<written>>,
                                   !.collections =
                                       IF oPut = "ok"
                                       THEN [cols EXCEPT ![at] = written]
                                       ELSE cols]

\* events a collection may carry before this tool touches it
TestEvent ==
    [listen |-> "test",
     script |-> [type |-> "text/javascript", exec |-> <<<<"pm.test('ok')">>>>]]
TestEventOnToken ==
    [listen |-> "test",
     script |-> [type |-> "text/javascript",
                 exec |-> <<<<"pm.environment.unset(\"", "jwt_token", "\")">>>>]]
OtherPrerequest ==
    [listen |-> "prerequest",
     script |-> [type |-> "text/javascript", exec |-> <<<<"console.log(1)">>>>]]
OwnTokenPrerequest ==
    [listen |-> "prerequest",
     script |-> [type |-> "text/javascript",
                 exec |-> <<<<"// sets ">>, <<"old_", "jwt_token">>>>]]

EventLists ==
    {<<>>,
     <<TestEvent>>,
     <<OtherPrerequest, TestEvent>>,
     <<TestEventOnToken, OtherPrerequest, TestEvent>>,
     <<TestEvent, OwnTokenPrerequest>>}

IdleRemote ==
    /\ workspaces = <<>>
    /\ collections = <<>>
    /\ nextId = 1
    /\ last = NoCall

(***************************************************************************)
(* Spec manager (Spec Hub)                                                 *)
(***************************************************************************)
\* a spec document without info.title
NoTitle == "<no title>"

\* the spec files: info.title (when present) and the stem of the file's path
SpecFiles ==
    {[title |-> "Refund API", stem |-> "payment-refund-api"],
     [title |-> "Ledger API", stem |-> "ledger"],
     [title |-> NoTitle, stem |-> "Refund API"]}

\* spec_data.get("info", {}).get("title", Path(spec_path).stem)
SpecNameOf(file) == IF file.title = NoTitle THEN file.stem ELSE file.title

\* result.get("specs", []) of GET /specs?workspaceId=...
RECURSIVE SpecsInWorkspace(_, _)
SpecsInWorkspace(sps, ws) ==
    IF sps = <<>> THEN <<>>
    ELSE IF Head(sps).ws = ws.n
    THEN <<Head(sps)>> \o SpecsInWorkspace(Tail(sps), ws)
    ELSE SpecsInWorkspace(Tail(sps), ws)

ListSpecs(sps, ws, o) ==
    [calls |-> <<"GET /specs?workspaceId">>,
     raised |-> IF o \in Raising THEN o ELSE "none",
     specs |-> IF o = "ok" THEN SpecsInWorkspace(sps, ws) ELSE <<>>]

\* for spec in specs: if spec.get("name") == spec_name: return spec
RECURSIVE FirstSpecNamed(_, _)
FirstSpecNamed(listing, spec_name) ==
    IF listing = <<>> THEN None
    ELSE IF Head(listing).name = spec_name THEN Id(Head(listing).id)
    ELSE FirstSpecNamed(Tail(listing), spec_name)

\* find_spec_by_name
FindSpecByName(sps, ws, spec_name, o) ==
    LET listed == ListSpecs(sps, ws, o)
    IN  [calls |-> listed.calls, raised |-> listed.raised,
         existing |-> FirstSpecNamed(listed.specs, spec_name)]

\* create_spec: result.get("id")
CreateSpec(sps, ws, spec_name, o) ==
    [calls |-> <<"POST /specs?workspaceId">>,
     raised |-> IF o \in Raising THEN o ELSE "none",
     id |-> IF o = "ok" THEN Id(Len(sps) + 1) ELSE None,
     specs |-> IF o = "ok"
               THEN Append(sps, [id |-> Len(sps) + 1, ws |-> ws.n, name |-> spec_name])
               ELSE sps]

NoUpsert ==
    [op |-> "none", workspace_id |-> None, name |-> "", calls |-> NoCalls,
     ret |-> None, is_new |-> FALSE, raised |-> "none", logs |-> {}]

\* upsert_spec: (existing id, False) or (new id, True)
UpsertSpec(sps, ws, file, oList, oCreate) ==
    LET spec_name == SpecNameOf(file)
        find == FindSpecByName(sps, ws, spec_name, oList)
        made == CreateSpec(sps, ws, spec_name, oCreate)
        base == [NoUpsert EXCEPT !.op = "upsert_spec", !.workspace_id = ws,
                                 !.name = spec_name, !.calls = find.calls]
    IN  IF find.raised # "none"
        THEN [call |-> [base EXCEPT !.raised = find.raised], specs |-> sps]
        ELSE IF find.existing # None
        THEN [call |-> [base EXCEPT !.ret = find.existing,
                                    !.logs = {"info: found existing spec"}],
              specs |-> sps]
        ELSE IF made.raised # "none"
        THEN [call |-> [base EXCEPT !.calls = @ \o made.calls,
                                    !.raised = made.raised],
              specs |-> sps]
        ELSE [call |-> [base EXCEPT !.calls = @ \o made.calls,
                                    !.ret = made.id, !.is_new = TRUE],
              specs |-> made.specs]

IdleUpsert ==
    /\ specs = <<>>
    /\ up = NoUpsert

(***************************************************************************)
(* Environment manager                                                     *)
(***************************************************************************)
\* one entry of an environment's "values"; type is "secret" or absent
Entry(key, value, type) ==
    [key |-> key, value |-> value, enabled |-> TRUE, type |-> type]

NoType == "<absent>"

\* full_base_url = f"https://{base_url}/{api_version}" with api_version "v2"
FullBaseUrl(base_url) == Https \o base_url \o <<"/", "v2">>

TokenUrl == <<"https://auth.example.com/oauth2/token">>

\* the payload of create_environment
CreatePayload(name, base_url) ==
    [name |-> name,
     values |-> <<Entry("base_url", FullBaseUrl(base_url), NoType),
                  Entry("client_id", <<>>, NoType),
                  Entry("client_secret", <<>>, "secret"),
                  Entry("token_url", TokenUrl, NoType),
                  Entry("jwt_token", <<>>, "secret"),
                  Entry("token_expiry", <<>>, NoType)>>]

\* the payload of update_environment
UpdatePayload(name, base_url) ==
    [name |-> name,
     values |-> <<Entry("base_url", FullBaseUrl(base_url), NoType),
                  Entry("client_id", <<>>, NoType),
                  Entry("client_secret", <<>>, "secret"),
                  Entry("token_url", TokenUrl, NoType),
                  Entry("jwt_token", <<>>, "secret"),
                  Entry("token_expiry", <<>>, NoType)>>]

NoPayload == [name |-> "", values |-> <<>>]

\* result.get("environments", []) of GET /environments?workspaceId=...
RECURSIVE EnvsInWorkspace(_, _)
EnvsInWorkspace(envs, ws) ==
    IF envs = <<>> THEN <<>>
    ELSE IF Head(envs).ws = ws.n
    THEN <<Head(envs)>> \o EnvsInWorkspace(Tail(envs), ws)
    ELSE EnvsInWorkspace(Tail(envs), ws)

\* for env in envs: if env.get("name") == name: return env.get("id")
RECURSIVE FirstEnvNamed(_, _)
FirstEnvNamed(listing, name) ==
    IF listing = <<>> THEN None
    ELSE IF Head(listing).name = name THEN Id(Head(listing).id)
    ELSE FirstEnvNamed(Tail(listing), name)

\* find_environment_by_name
FindEnvironmentByName(envs, ws, name, o) ==
    [raised |-> IF o \in Raising THEN o ELSE "none",
     existing_id |-> FirstEnvNamed(IF o = "ok" THEN EnvsInWorkspace(envs, ws)
                                   ELSE <<>>, name)]

\* create_environment: result.get("environment", {}).get("id")
CreateEnvironment(envs, ws, name, base_url, o) ==
    LET payload == CreatePayload(name, base_url)
    IN  [payload |-> payload,
         raised |-> IF o \in Raising THEN o ELSE "none",
         env_id |-> IF o = "ok" THEN Id(Len(envs) + 1) ELSE None,
         logs |-> IF o = "ok" THEN {"info: created environment"}
                  ELSE IF o = "dropped" THEN {"warning: failed to create environment"}
                  ELSE {},
         environments |->
             IF o = "ok"
             THEN Append(envs, [id |-> Len(envs) + 1, ws |-> ws.n,
                                name |-> payload.name, values |-> payload.values])
             ELSE envs]

\* an update that merges: entries of keys the payload does not have are kept
UpdateEnvironment_Merge(envs, env_id, name, base_url, o) ==
    LET payload == UpdatePayload(name, base_url)
        at == CHOOSE i \in 1..Len(envs) : envs[i].id = env_id.n
        kept == SelectSeq(envs[at].values,
                          LAMBDA e : \A j \in 1..Len(payload.values) :
                                         payload.values[j].key # e.key)
    IN  [payload |-> payload,
         raised |-> IF o \in Raising THEN o ELSE "none",
         environments |->
             IF o = "ok"
             THEN [envs EXCEPT ![at] = [@ EXCEPT !.name = payload.name,
                                                 !.values = payload.values \o kept]]
             ELSE envs]

\* update_environment: PUT /environments/{env_id} replaces name and values
UpdateEnvironment(envs, env_id, name, base_url, o) ==
    LET payload == UpdatePayload(name, base_url)
        at == CHOOSE i \in 1..Len(envs) : envs[i].id = env_id.n
    IN  [payload |-> payload,
         raised |-> IF o \in Raising THEN o ELSE "none",
         environments |->
             IF o = "ok"
             THEN [envs EXCEPT ![at] = [@ EXCEPT !.name = payload.name,
                                                 !.values = payload.values]]
             ELSE envs]

\* env_mapping after the server loop and the defaults
RECURSIVE MapServers(_, _)
MapServers(env_mapping, svs) ==
    IF svs = <<>> THEN env_mapping
    ELSE MapServers(MapOneServer(env_mapping, Head(svs)), Tail(svs))

EnvMappingOf(svs) == WithDefaults(MapServers(<<>>, svs))

EvStart ==
    [pc |-> "start", env_mapping |-> <<>>, idx |-> 0, env_ids |-> <<>>,
     trace |-> <<>>, raised |-> "none"]

\* what one iteration of `for env_name, host in env_mapping.items()` did
Processed(env_name, host, listed, existing_id, op, payload, env_id, raised) ==
    [env_name |-> env_name, host |-> host, listed |-> listed,
     existing_id |-> existing_id, op |-> op, payload |-> payload,
     env_id |-> env_id, raised |-> raised]

\* the body of `for env_name, host in env_mapping.items()`
EnvIteration(st, envs, ws, oFind, oWrite) ==
    LET env_name == st.env_mapping[st.idx + 1][1]
        host == st.env_mapping[st.idx + 1][2]
        listed == FirstEnvNamed(EnvsInWorkspace(envs, ws), env_name) # None
        find == FindEnvironmentByName(envs, ws, env_name, oFind)
        existing_id == find.existing_id
        updated == UpdateEnvironment(envs, existing_id, env_name, host, oWrite)
        created == CreateEnvironment(envs, ws, env_name, host, oWrite)
        next == [st EXCEPT !.idx = @ + 1]
    IN  IF find.raised # "none"
        THEN [st |-> [st EXCEPT !.pc = "raised", !.raised = find.raised,
                                !.trace = Append(@, Processed(env_name, host, listed,
                                    None, "none", NoPayload, None, find.raised))],
              environments |-> envs]
        ELSE IF existing_id # None
        THEN IF updated.raised # "none"
             THEN [st |-> [st EXCEPT !.pc = "raised", !.raised = updated.raised,
                               !.trace = Append(@, Processed(env_name, host, listed,
                                   existing_id, "update", updated.payload, None,
                                   updated.raised))],
                   environments |-> envs]
             ELSE [st |-> [next EXCEPT
                               !.env_ids = DictSet(@, env_name, existing_id),
                               !.trace = Append(@, Processed(env_name, host, listed,
                                   existing_id, "update", updated.payload,
                                   existing_id, "none"))],
                   environments |-> updated.environments]
        ELSE IF created.raised # "none"
        THEN [st |-> [st EXCEPT !.pc = "raised", !.raised = created.raised,
                          !.trace = Append(@, Processed(env_name, host, listed,
                              None, "create", created.payload, None, created.raised))],
              environments |-> envs]
        ELSE [st |-> [next EXCEPT
                          !.env_ids = IF created.env_id # None
                                      THEN DictSet(@, env_name, created.env_id)
                                      ELSE @,
                          !.trace = Append(@, Processed(env_name, host, listed,
                              None, "create", created.payload, created.env_id,
                              "none"))],
              environments |-> created.environments]

IdleEnv ==
    /\ environments = <<>>
    /\ ev = EvStart

(***************************************************************************)
(* Export                                                                  *)
(***************************************************************************)
\* a redaction that goes by the key names of the fixed variable schema
RECURSIVE Redact_KnownKeys(_)
Redact_KnownKeys(values) ==
    IF values = <<>> THEN <<>>
    ELSE <<IF Head(values).key \in {"client_secret", "jwt_token"}
           THEN [Head(values) EXCEPT !.value = <<>>]
           ELSE Head(values)>> \o Redact_KnownKeys(Tail(values))

\* for v in values: if v.get("type") == "secret": v["value"] = ""
RECURSIVE Redact(_)
Redact(values) ==
    IF values = <<>> THEN <<>>
    ELSE <<IF Head(values).type = "secret"
           THEN [Head(values) EXCEPT !.value = <<>>]
           ELSE Head(values)>> \o Redact(Tail(values))

\* json.dump of one entry of "values": the keys in insertion order
DumpEntry(e) ==
    <<"{", "\"key\": \"", e.key, "\", \"value\": \"">> \o e.value
        \o <<"\", \"enabled\": true">>
        \o (IF e.type = NoType THEN <<>> ELSE <<", \"type\": \"", e.type, "\"">>)
        \o <<"}">>

RECURSIVE DumpValues(_)
DumpValues(values) ==
    IF values = <<>> THEN <<>>
    ELSE DumpEntry(Head(values))
             \o (IF Len(values) > 1 THEN <<", ">> ELSE <<>>)
             \o DumpValues(Tail(values))

\* {}: what result.get("environment", {}) gives when the key is missing
NoEnvironment == [id |-> "<absent>", name |-> "<absent>", values |-> <<>>]

\* json.dump({"environment": env}, f, indent=2)
DumpEnvironment(env) ==
    IF env = NoEnvironment THEN <<"{\"environment\": {}}">>
    ELSE <<"{\"environment\": {\"id\": \"", env.id, "\", \"name\": \"", env.name,
           "\", \"values\": [">> \o DumpValues(env.values) \o <<"]}}">>

\* get_environment: result.get("environment", {})
GetEnvironment(doc, o) ==
    [raised |-> IF o \in Raising THEN o ELSE "none",
     env |-> IF o = "ok" THEN doc ELSE NoEnvironment]

NoFile == [fetched |-> FALSE, raised |-> "none", env |-> NoEnvironment, text |-> <<>>]

\* export_environment: the document handed to json.dump and the file's text
ExportEnvironment(doc, o) ==
    LET got == GetEnvironment(doc, o)
        env == [got.env EXCEPT !.values = Redact(@)]
    IN  IF got.raised # "none" THEN [NoFile EXCEPT !.raised = got.raised]
        ELSE [fetched |-> o = "ok", raised |-> "none", env |-> env,
              text |-> DumpEnvironment(env)]

ExStart == [docs |-> <<>>, files |-> <<>>]

IdleExport == ex = ExStart

(***************************************************************************)
(* main(): one run of the six steps                                        *)
(***************************************************************************)
\* exit code of a run that has not ended
NotExited == -1

\* POSTMAN_API_KEY set, --spec / SPEC_PATH given, the spec file exists,
\* --no-export given, args.export non-empty
Configs ==
    [api_key : BOOLEAN, spec : BOOLEAN, exists : BOOLEAN,
     no_export : BOOLEAN, export : BOOLEAN]

\* the spec file of the run and its servers
MainFile == [title |-> "Refund API", stem |-> "payment-refund-api"]

MainServers ==
    <<[url |-> Https \o <<"a", "/", "v">>,
       description |-> <<"P", "r", "o", "d", "u", "c", "t", "i", "o", "n">>]>>

RunStart(cfg) ==
    [cfg |-> cfg, pc |-> "validate", exit_code |-> NotExited, calls |-> <<>>,
     workspace_id |-> None, spec_id |-> None, collection_id |-> None,
     env_ids |-> <<>>, idx |-> 0, warnings |-> {}, exported |-> <<>>,
     failed |-> {}, exc |-> "none"]

\* a validation that only looks at the API key
ValidateConfig_KeyOnly(cfg) ==
    IF ~cfg.api_key THEN "exit" ELSE "ok"

\* the three checks that end in sys.exit(1)
ValidateConfig(cfg) ==
    IF ~cfg.api_key THEN "exit"
    ELSE IF ~cfg.spec THEN "exit"
    ELSE IF ~cfg.exists THEN "exit"
    ELSE "ok"

\* sys.exit(1)
Exit1(st) == [st EXCEPT !.pc = "exited", !.exit_code = 1]

\* an exception that nothing catches ends the interpreter with exit code 1
Crash(st, step, exc) ==
    [st EXCEPT !.pc = "exited", !.exit_code = 1, !.exc = exc,
               !.failed = @ \cup {step}]

\* not args.no_export and args.export
ExportEnabled(cfg) == ~cfg.no_export /\ cfg.export

\* the ways one tier's find and update/create can go, as main sees them
TierOutcomes ==
    {<<"ok", "ok">>, <<"ok", "dropped">>, <<"ok", "HTTPError">>,
     <<"HTTPError", "dropped">>}

\* setup_all_environments: the environment loop run to its end
RECURSIVE SetupAllFrom(_, _, _, _)
SetupAllFrom(st, envs, ws, outs) ==
    IF st.pc # "envs" \/ st.idx = Len(st.env_mapping) \/ outs = <<>>
    THEN [st |-> st, environments |-> envs]
    ELSE LET r == EnvIteration(st, envs, ws, Head(outs)[1], Head(outs)[2])
         IN  SetupAllFrom(r.st, r.environments, ws, Tail(outs))

SetupAllEnvironments(envs, ws, svs, outs) ==
    LET r == SetupAllFrom([EvStart EXCEPT !.pc = "envs",
                                          !.env_mapping = EnvMappingOf(svs)],
                          envs, ws, outs)
    IN  [raised |-> r.st.raised, env_ids |-> r.st.env_ids,
         environments |-> r.environments]

\* export_collection: get_collection, then json.dump({"collection": ...})
ExportCollection(o) ==
    [raised |-> IF o \in Raising THEN o ELSE "none",
     file |-> "collection.json"]

IdleMain == run = RunStart([api_key |-> FALSE, spec |-> FALSE, exists |-> FALSE,
                            no_export |-> FALSE, export |-> FALSE])

(***************************************************************************)
(* get_or_create_workspace with a workspace ID, on the responses to the    *)
(* probe                                                                   *)
(***************************************************************************)
\* what GET /workspaces/{id} can be answered with, attempt by attempt
ProbeResponses ==
    {[status |-> 200, retryAfter |-> NoHeader, text |-> t] :
        t \in {WorkspaceBody, "{}", ""}}
    \cup {[status |-> s, retryAfter |-> NoHeader, text |-> "{}"] : s \in {401, 404, 500}}
    \cup {[status |-> 429, retryAfter |-> NoHeader, text |-> ""]}
    \cup {[status |-> NetFail, retryAfter |-> NoHeader, text |-> ""]}

\* result.get("workspace")
HasWorkspace(result) == \E p \in result : p[1] = "workspace"

\* a get_workspace that takes only 404 for "not found"
ProbeWorkspace_Only404(resps) ==
    LET st == RunRequest(resps, FALSE) IN
    CASE st.pc = "raised" /\ st.exc = "HTTPError" /\ st.last = 404
            -> [calls |-> st.calls, raised |-> "none", workspace |-> FALSE]
      [] st.pc = "raised"
            -> [calls |-> st.calls, raised |-> st.exc, workspace |-> FALSE]
      [] OTHER
            -> [calls |-> st.calls, raised |-> "none",
                workspace |-> HasWorkspace(st.result)]

\* get_workspace(workspace_id) on a scripted server: result.get("workspace"),
\* None on HTTPError of any status; any other exception leaves it
ProbeWorkspace(resps) ==
    LET st == RunRequest(resps, FALSE) IN
    CASE st.pc = "raised" /\ st.exc = "HTTPError"
            -> [calls |-> st.calls, raised |-> "none", workspace |-> FALSE]
      [] st.pc = "raised"
            -> [calls |-> st.calls, raised |-> st.exc, workspace |-> FALSE]
      [] OTHER
            -> [calls |-> st.calls, raised |-> "none",
                workspace |-> HasWorkspace(st.result)]

PbStart ==
    [pc |-> "start", workspace_id |-> None, name |-> <<>>, probe |-> "none",
     gets |-> 0, calls |-> NoCalls, ret |-> None, raised |-> "none",
     logs |-> {}]

IdleProbe ==
    /\ probeScript = <<>>
    /\ pb = PbStart

Done == rq.pc # "run"

(***************************************************************************)
(* SpecReq                                                                 *)
(***************************************************************************)
InitReq ==
    /\ script \in [1..MaxScript -> Responses]
    /\ suppress_errors \in BOOLEAN
    /\ rq = RqStart
    /\ IdlePoll
    /\ IdleSetup
    /\ IdleRemote
    /\ IdleUpsert
    /\ IdleEnv
    /\ IdleExport
    /\ IdleMain
    /\ IdleProbe

NextResponse == script[rq.calls + 1]

RateLimited ==
    /\ CanAttempt(rq)
    /\ IsRateLimited(NextResponse)
    /\ rq' = RequestStep(rq, NextResponse, suppress_errors)
    /\ UNCHANGED <<script, suppress_errors>>
    /\ UNCHANGED <<pollVars, setupVars, remoteVars, upsertVars, envVars, exportVars, mainVars, probeVars>>

HttpFailure ==
    /\ CanAttempt(rq)
    /\ IsHTTPError(NextResponse)
    /\ rq' = RequestStep(rq, NextResponse, suppress_errors)
    /\ UNCHANGED <<script, suppress_errors>>
    /\ UNCHANGED <<pollVars, setupVars, remoteVars, upsertVars, envVars, exportVars, mainVars, probeVars>>

NetworkFailure ==
    /\ CanAttempt(rq)
    /\ IsNetFail(NextResponse)
    /\ rq' = RequestStep(rq, NextResponse, suppress_errors)
    /\ UNCHANGED <<script, suppress_errors>>
    /\ UNCHANGED <<pollVars, setupVars, remoteVars, upsertVars, envVars, exportVars, mainVars, probeVars>>

Success ==
    /\ CanAttempt(rq)
    /\ IsSuccess(NextResponse)
    /\ rq' = RequestStep(rq, NextResponse, suppress_errors)
    /\ UNCHANGED <<script, suppress_errors>>
    /\ UNCHANGED <<pollVars, setupVars, remoteVars, upsertVars, envVars, exportVars, mainVars, probeVars>>

ReturnEmpty ==
    /\ LoopExhausted(rq)
    /\ rq' = OnLoopExhausted(rq)
    /\ UNCHANGED <<script, suppress_errors>>
    /\ UNCHANGED <<pollVars, setupVars, remoteVars, upsertVars, envVars, exportVars, mainVars, probeVars>>

NextReq ==
    \/ RateLimited
    \/ HttpFailure
    \/ NetworkFailure
    \/ Success
    \/ ReturnEmpty

vars == <<reqVars, pollVars, setupVars, remoteVars, upsertVars, envVars, exportVars, mainVars, probeVars>>

SpecReq == InitReq /\ [][NextReq]_vars

(***************************************************************************)
(* SpecPoll                                                                *)
(***************************************************************************)
IdleReq ==
    /\ script = <<>>
    /\ suppress_errors = FALSE
    /\ rq = RqStart

InitPoll ==
    /\ pollScript \in [1..MaxPollScript -> Fetches]
    /\ max_attempts \in 0..MaxPollScript
    /\ pl = PlStart
    /\ IdleReq
    /\ IdleSetup
    /\ IdleRemote
    /\ IdleUpsert
    /\ IdleEnv
    /\ IdleExport
    /\ IdleMain
    /\ IdleProbe

NextFetch == pollScript[pl.fetches + 1]

PollFetch ==
    /\ CanPoll(pl, max_attempts)
    /\ pl' = PollStep(pl, NextFetch)
    /\ UNCHANGED <<pollScript, max_attempts>>
    /\ UNCHANGED <<reqVars, setupVars, remoteVars, upsertVars, envVars, exportVars, mainVars, probeVars>>

PollTimeout ==
    /\ PollExhausted(pl, max_attempts)
    /\ pl' = PollTimedOut(pl)
    /\ UNCHANGED <<pollScript, max_attempts>>
    /\ UNCHANGED <<reqVars, setupVars, remoteVars, upsertVars, envVars, exportVars, mainVars, probeVars>>

NextPoll ==
    \/ PollFetch
    \/ PollTimeout

SpecPoll == InitPoll /\ [][NextPoll]_vars

PollDone == pl.pc # "run"

(***************************************************************************)
(* SpecSetup                                                               *)
(***************************************************************************)
InitSetup ==
    /\ servers \in ServerLists
    /\ su = SuStart
    /\ IdleReq
    /\ IdlePoll
    /\ IdleRemote
    /\ IdleUpsert
    /\ IdleEnv
    /\ IdleExport
    /\ IdleMain
    /\ IdleProbe

\* one iteration of `for server in servers`
MapServer ==
    /\ su.pc = "servers"
    /\ su.idx < Len(servers)
    /\ su' = [su EXCEPT !.idx = @ + 1,
                        !.env_mapping = MapOneServer(@, servers[su.idx + 1])]
    /\ UNCHANGED servers
    /\ UNCHANGED <<reqVars, pollVars, remoteVars, upsertVars, envVars, exportVars, mainVars, probeVars>>

\* the servers are done: fall back to the defaults for the missing tiers
FillDefaults ==
    /\ su.pc = "servers"
    /\ su.idx = Len(servers)
    /\ su' = [su EXCEPT !.pc = "mapped", !.env_mapping = WithDefaults(@)]
    /\ UNCHANGED servers
    /\ UNCHANGED <<reqVars, pollVars, remoteVars, upsertVars, envVars, exportVars, mainVars, probeVars>>

NextSetup ==
    \/ MapServer
    \/ FillDefaults

SpecSetup == InitSetup /\ [][NextSetup]_vars

(***************************************************************************)
(* Spec: handler calls against the vendor's remote state                   *)
(***************************************************************************)
WorkspaceIds == {Id(workspaces[i].id) : i \in 1..Len(workspaces)}

\* an identifier no workspace has (a stale WORKSPACE_ID)
StaleId == Id(0)

\* the identifiers a caller may hold for a collection: the uid of a listing
\* or the id of a generation
CollectionRefs ==
    UNION {{Id(collections[i].id), Uid(collections[i].id)} : i \in 1..Len(collections)}

\* the first identifier the vendor hands out in Spec (1..3 are taken)
FirstFreeId == 1 + 3

\* two workspaces; the first is empty or holds one collection
Init ==
    /\ workspaces = <<[id |-> 1, name |-> WorkspaceNameOf("Refund API")],
                      [id |-> 2, name |-> WorkspaceNameOf("Ledger API")]>>
    /\ \/ collections = <<>>
       \/ \E events \in EventLists :
              collections = <<[id |-> 3, ws |-> 1,
                               name |-> CollectionNameOf("Refund API"),
                               event |-> events, item |-> "requests"]>>
    /\ nextId = FirstFreeId
    /\ last = NoCall
    /\ IdleReq
    /\ IdlePoll
    /\ IdleSetup
    /\ IdleUpsert
    /\ IdleEnv
    /\ IdleExport
    /\ IdleMain
    /\ IdleProbe

\* the account is empty or holds one workspace
InitWorkspace ==
    /\ \/ workspaces = <<>>
       \/ workspaces = <<[id |-> 1, name |-> WorkspaceNameOf("Refund API")]>>
    /\ collections = <<>>
    /\ nextId = Len(workspaces) + 1
    /\ last = NoCall
    /\ IdleReq
    /\ IdlePoll
    /\ IdleSetup
    /\ IdleUpsert
    /\ IdleEnv
    /\ IdleExport
    /\ IdleMain
    /\ IdleProbe

\* step 1 of main: WORKSPACE_ID from the environment (or none) and the
\* workspace name made from the spec title
WorkspaceStep ==
    /\ \E workspace_id \in {None, StaleId} \cup WorkspaceIds, title \in Titles :
       \E oGet \in IF workspace_id = None THEN {"dropped"}
                    ELSE OutcomesFor(WorkspaceExists(workspaces, workspace_id)),
          oCreate \in RequestOutcomes :
          LET r == GetOrCreateWorkspace(workspaces, nextId, workspace_id,
                                        WorkspaceNameOf(title), oGet, oCreate)
          IN  /\ r.workspaces = workspaces \/ Len(workspaces) < MaxWorkspaces
              /\ workspaces' = r.workspaces
              /\ nextId' = IF r.workspaces # workspaces THEN nextId + 1 ELSE nextId
              /\ last' = [NoCall EXCEPT !.op = "get_or_create_workspace",
                                        !.workspace_id = workspace_id,
                                        !.name = WorkspaceNameOf(title),
                                        !.calls = r.calls, !.ret = r.ret,
                                        !.raised = r.raised, !.logs = r.logs]
    /\ UNCHANGED collections
    /\ UNCHANGED <<reqVars, pollVars, setupVars, upsertVars, envVars, exportVars, mainVars, probeVars>>

\* step 3 of main: generate_collection(spec_id, workspace_id, spec_name)
GenerationStep ==
    /\ \E ws \in WorkspaceIds, title \in Titles :
       \E oList \in RequestOutcomes :
       \E oGen \in IF FindCollectionByName(collections, ws, CollectionNameOf(title),
                                           oList).existing = None
                       /\ oList \notin Raising
                    THEN RequestOutcomes ELSE {"dropped"} :
       \E shape \in IF oGen = "ok" THEN {"sync", "async"} ELSE {"none"} :
       \E task \in IF shape = "async" THEN PollOutcomes ELSE {NoPoll} :
          LET r == GenerateCollection(collections, nextId, ws,
                                     CollectionNameOf(title), oList, oGen, shape, task)
          IN  /\ r.collections = collections \/ nextId < FirstFreeId + MaxGenerated
              /\ collections' = r.collections
              /\ nextId' = IF r.collections # collections THEN nextId + 1 ELSE nextId
              /\ last' = [NoCall EXCEPT !.op = "generate_collection",
                                        !.workspace_id = ws,
                                        !.name = CollectionNameOf(title),
                                        !.calls = r.calls, !.ret = r.ret,
                                        !.raised = r.raised, !.logs = r.logs,
                                        !.existing = r.existing,
                                        !.response = r.response,
                                        !.polled = r.polled, !.task = r.task]
    /\ UNCHANGED workspaces
    /\ UNCHANGED <<reqVars, pollVars, setupVars, upsertVars, envVars, exportVars, mainVars, probeVars>>

\* step 5 of main: add_jwt_prerequest_script(collection_id)
InjectionStep ==
    /\ \E collection_id \in CollectionRefs :
       \E oGet \in RequestOutcomes :
       \E oPut \in IF oGet = "ok" /\ ~HasPrerequest(
                           collections[CollectionAt(collections, collection_id)].event)
                    THEN RequestOutcomes ELSE {"dropped"} :
          LET r == AddJwtPrerequestScript(collections, collection_id, oGet, oPut)
          IN  /\ collections' = r.collections
              /\ last' = [NoCall EXCEPT !.op = "add_jwt_prerequest_script",
                                        !.collection_id = collection_id,
                                        !.calls = r.calls, !.raised = r.raised,
                                        !.logs = r.logs, !.outcome = r.outcome,
                                        !.fetched = r.fetched, !.got = r.got,
                                        !.puts = r.puts]
    /\ UNCHANGED <<workspaces, nextId>>
    /\ UNCHANGED <<reqVars, pollVars, setupVars, upsertVars, envVars, exportVars, mainVars, probeVars>>

Next ==
    \/ GenerationStep
    \/ InjectionStep

Spec == Init /\ [][Next]_vars

NextWorkspace ==
    \/ WorkspaceStep

SpecWorkspace == InitWorkspace /\ [][NextWorkspace]_vars

(***************************************************************************)
(* SpecUpsert: upsert_spec calls against the vendor's specs                *)
(***************************************************************************)
\* no spec, one spec, two specs of one name in a workspace, or specs spread
\* over two workspaces
InitUpsert ==
    /\ specs \in {<<>>,
                  <<[id |-> 1, ws |-> 1, name |-> "Refund API"]>>,
                  <<[id |-> 1, ws |-> 1, name |-> "Refund API"],
                    [id |-> 2, ws |-> 1, name |-> "Refund API"]>>,
                  <<[id |-> 1, ws |-> 2, name |-> "Refund API"],
                    [id |-> 2, ws |-> 1, name |-> "Ledger API"]>>}
    /\ up = NoUpsert
    /\ IdleReq
    /\ IdlePoll
    /\ IdleSetup
    /\ IdleRemote
    /\ IdleEnv
    /\ IdleExport
    /\ IdleMain
    /\ IdleProbe

\* step 2 of main: upsert_spec(workspace_id, str(spec_path))
UpsertStep ==
    /\ \E ws \in {Id(1), Id(2)}, file \in SpecFiles :
       \E oList \in RequestOutcomes, oCreate \in RequestOutcomes :
          LET r == UpsertSpec(specs, ws, file, oList, oCreate)
          IN  /\ r.specs = specs \/ Len(specs) < MaxSpecs
              /\ specs' = r.specs
              /\ up' = r.call
    /\ UNCHANGED <<reqVars, pollVars, setupVars, remoteVars, envVars, exportVars, mainVars, probeVars>>

NextUpsert ==
    \/ UpsertStep

SpecUpsert == InitUpsert /\ [][NextUpsert]_vars

(***************************************************************************)
(* SpecEnv: one call of setup_all_environments on workspace 1              *)
(***************************************************************************)
\* server lists of the spec document
SetupInputs ==
    {<<>>,
     <<[url |-> Https \o <<"a", "/", "v">>,
        description |-> <<"P", "r", "o", "d", "u", "c", "t", "i", "o", "n">>],
       [url |-> Https \o <<"b">>, description |-> <<"U", "A", "T">>]>>,
     <<[url |-> Http \o <<"c", "/">>,
        description |-> <<"p", "r", "e", "-", "p", "r", "o", "d", " ", "U", "a", "t">>]>>,
     <<[url |-> <<"d", "/", "x">>, description |-> <<"D", "e", "v">>],
       [url |-> <<>>, description |-> <<"q", "a">>]>>}

\* what an environment held before this run
OldValues ==
    <<Entry("base_url", <<"https://old.example.com/v1">>, NoType),
      Entry("jwt_token", <<"eyJ.old">>, "secret"),
      Entry("api_key", <<"k-123">>, NoType)>>

\* the workspace has no environment, or a Prod and a Dev one from a past run
InitEnv ==
    /\ servers \in SetupInputs
    /\ su = SuStart
    /\ environments \in
           {<<>>,
            <<[id |-> 1, ws |-> 1, name |-> "Prod", values |-> OldValues],
              [id |-> 2, ws |-> 1, name |-> "Dev",
               values |-> CreatePayload("Dev", DefaultHost("Dev")).values]>>}
    /\ ev = EvStart
    /\ IdleReq
    /\ IdlePoll
    /\ IdleRemote
    /\ IdleUpsert
    /\ IdleExport
    /\ IdleMain
    /\ IdleProbe

\* the server loop and the defaults (lines 426-449)
EnvMap ==
    /\ ev.pc = "start"
    /\ ev' = [ev EXCEPT !.pc = "envs", !.env_mapping = EnvMappingOf(servers)]
    /\ UNCHANGED environments
    /\ UNCHANGED <<reqVars, pollVars, setupVars, remoteVars, upsertVars, exportVars, mainVars, probeVars>>

\* one iteration of the environment loop
EnvProcess ==
    /\ ev.pc = "envs"
    /\ ev.idx < Len(ev.env_mapping)
    /\ \E oFind \in RequestOutcomes :
       \E oWrite \in IF oFind \in Raising THEN {"dropped"} ELSE RequestOutcomes :
          LET r == EnvIteration(ev, environments, Id(1), oFind, oWrite)
          IN  /\ ev' = r.st
              /\ environments' = r.environments
    /\ UNCHANGED <<reqVars, pollVars, setupVars, remoteVars, upsertVars, exportVars, mainVars, probeVars>>

\* return env_ids
EnvReturn ==
    /\ ev.pc = "envs"
    /\ ev.idx = Len(ev.env_mapping)
    /\ ev' = [ev EXCEPT !.pc = "returned"]
    /\ UNCHANGED environments
    /\ UNCHANGED <<reqVars, pollVars, setupVars, remoteVars, upsertVars, exportVars, mainVars, probeVars>>

NextEnv ==
    \/ EnvMap
    \/ EnvProcess
    \/ EnvReturn

SpecEnv == InitEnv /\ [][NextEnv]_vars

(***************************************************************************)
(* SpecExport: export_environment on two environments that differ only in  *)
(* the values of their secret entries                                      *)
(***************************************************************************)
ExportedEntries ==
    {Entry(k, v, t) : k \in {"jwt_token", "api_key"},
                      v \in {<<>>, <<"v1">>, <<"v2">>},
                      t \in {NoType, "secret", "default"}}

ExportedValues == UNION {[1..n -> ExportedEntries] : n \in 0..MaxEntries}

\* the same entries but for the values of the entries of type secret
SameButSecrets(a, b) ==
    /\ Len(a) = Len(b)
    /\ \A i \in 1..Len(a) :
           /\ a[i].key = b[i].key
           /\ a[i].type = b[i].type
           /\ a[i].enabled = b[i].enabled
           /\ a[i].type # "secret" => a[i].value = b[i].value

EnvDoc(values) == [id |-> "e1", name |-> "Prod", values |-> values]

InitExport ==
    /\ \E a \in ExportedValues :
       \E b \in {v \in ExportedValues : SameButSecrets(a, v)} :
           ex = [docs |-> <<EnvDoc(a), EnvDoc(b)>>, files |-> <<>>]
    /\ IdleReq
    /\ IdlePoll
    /\ IdleSetup
    /\ IdleRemote
    /\ IdleUpsert
    /\ IdleEnv
    /\ IdleMain
    /\ IdleProbe

\* the body of `for env_name, env_id in env_ids.items()` in step 6 of main
ExportStep ==
    /\ Len(ex.files) < Len(ex.docs)
    /\ \E o \in RequestOutcomes :
           ex' = [ex EXCEPT !.files =
                      Append(@, ExportEnvironment(ex.docs[Len(ex.files) + 1], o))]
    /\ UNCHANGED <<reqVars, pollVars, setupVars, remoteVars, upsertVars, envVars, mainVars, probeVars>>

NextExport ==
    \/ ExportStep

SpecExport == InitExport /\ [][NextExport]_vars

(***************************************************************************)
(* SpecMain: one run of main() against an empty account                    *)
(***************************************************************************)
InitMain ==
    /\ \E cfg \in Configs : run = RunStart(cfg)
    /\ IdleReq
    /\ IdlePoll
    /\ IdleSetup
    /\ IdleRemote
    /\ IdleUpsert
    /\ IdleEnv
    /\ IdleExport
    /\ IdleProbe

\* lines 549-572: validate the environment and the spec file
MainValidate ==
    /\ run.pc = "validate"
    /\ run' = IF ValidateConfig(run.cfg) = "exit" THEN Exit1(run)
              ELSE [run EXCEPT !.pc = "workspace"]
    /\ UNCHANGED <<reqVars, pollVars, setupVars, remoteVars, upsertVars, envVars, exportVars, probeVars>>

\* [1/6] get_or_create_workspace without WORKSPACE_ID
MainWorkspace ==
    /\ run.pc = "workspace"
    /\ \E oCreate \in RequestOutcomes :
          LET r == GetOrCreateWorkspace(<<>>, 1, None,
                                        WorkspaceNameOf(SpecNameOf(MainFile)),
                                        "dropped", oCreate)
              st == [run EXCEPT !.calls = Append(@, "get_or_create_workspace")]
          IN  run' = IF r.raised # "none" THEN Crash(st, "workspace", r.raised)
                     ELSE [st EXCEPT !.pc = "spec", !.workspace_id = r.ret]
    /\ UNCHANGED <<reqVars, pollVars, setupVars, remoteVars, upsertVars, envVars, exportVars, probeVars>>

\* [2/6] upsert_spec
MainSpec ==
    /\ run.pc = "spec"
    /\ \E oList \in RequestOutcomes, oCreate \in RequestOutcomes :
          LET r == UpsertSpec(<<>>, run.workspace_id, MainFile, oList, oCreate).call
              st == [run EXCEPT !.calls = Append(@, "upsert_spec")]
          IN  run' = IF r.raised # "none" THEN Crash(st, "spec", r.raised)
                     ELSE [st EXCEPT !.pc = "collection", !.spec_id = r.ret]
    /\ UNCHANGED <<reqVars, pollVars, setupVars, remoteVars, upsertVars, envVars, exportVars, probeVars>>

\* [3/6] generate_collection
MainCollection ==
    /\ run.pc = "collection"
    /\ \E oList \in RequestOutcomes :
       \E oGen \in IF oList \in Raising THEN {"dropped"} ELSE RequestOutcomes :
       \E shape \in IF oGen = "ok" THEN {"sync", "async"} ELSE {"none"} :
       \E task \in IF shape = "async" THEN PollOutcomes ELSE {NoPoll} :
          LET r == GenerateCollection(<<>>, 1, run.workspace_id,
                                      CollectionNameOf(SpecNameOf(MainFile)),
                                      oList, oGen, shape, task)
              st == [run EXCEPT !.calls = Append(@, "generate_collection")]
          IN  run' = IF r.raised # "none" THEN Crash(st, "collection", r.raised)
                     ELSE [st EXCEPT !.pc = "environments",
                                     !.collection_id = r.ret,
                                     !.warnings = IF r.ret = None
                                         THEN @ \cup {"Could not generate collection"}
                                         ELSE @]
    /\ UNCHANGED <<reqVars, pollVars, setupVars, remoteVars, upsertVars, envVars, exportVars, probeVars>>

\* [4/6] setup_all_environments
MainEnvironments ==
    /\ run.pc = "environments"
    /\ \E outs \in [1..Len(DefaultTiers) -> TierOutcomes] :
          LET r == SetupAllEnvironments(<<>>, run.workspace_id, MainServers, outs)
              st == [run EXCEPT !.calls = Append(@, "setup_all_environments")]
          IN  run' = IF r.raised # "none" THEN Crash(st, "environments", r.raised)
                     ELSE [st EXCEPT !.pc = "jwt", !.env_ids = r.env_ids,
                                     !.warnings = IF r.env_ids = <<>>
                                         THEN @ \cup {"No environments created"}
                                         ELSE @]
    /\ UNCHANGED <<reqVars, pollVars, setupVars, remoteVars, upsertVars, envVars, exportVars, probeVars>>

\* [5/6] add_jwt_prerequest_script inside try / except Exception
MainJwt ==
    /\ run.pc = "jwt"
    /\ IF run.collection_id = None
       THEN run' = [run EXCEPT !.pc = "export"]
       ELSE \E oGet \in RequestOutcomes :
            \E oPut \in IF oGet = "ok" THEN RequestOutcomes ELSE {"dropped"} :
               LET cols == <<Generated(run.collection_id.n, run.workspace_id,
                                       CollectionNameOf(SpecNameOf(MainFile)))>>
                   r == AddJwtPrerequestScript(cols, run.collection_id, oGet, oPut)
                   st == [run EXCEPT !.calls = Append(@, "add_jwt_prerequest_script"),
                                     !.pc = "export"]
               IN  run' = IF r.raised # "none"
                          THEN [st EXCEPT !.warnings = @ \cup {"Could not add JWT script"},
                                          !.failed = @ \cup {"jwt"}]
                          ELSE st
    /\ UNCHANGED <<reqVars, pollVars, setupVars, remoteVars, upsertVars, envVars, exportVars, probeVars>>

\* [6/6] the collection's export, or the whole step skipped
MainExportCollection ==
    /\ run.pc = "export"
    /\ IF ~ExportEnabled(run.cfg)
       THEN run' = [run EXCEPT !.pc = "summary"]
       ELSE IF run.collection_id = None
       THEN run' = [run EXCEPT !.pc = "export_envs"]
       ELSE \E o \in RequestOutcomes :
               LET r == ExportCollection(o)
                   st == [run EXCEPT !.calls = Append(@, "export_collection")]
               IN  run' = IF r.raised # "none" THEN Crash(st, "export", r.raised)
                          ELSE [st EXCEPT !.pc = "export_envs",
                                          !.exported = Append(@, r.file)]
    /\ UNCHANGED <<reqVars, pollVars, setupVars, remoteVars, upsertVars, envVars, exportVars, probeVars>>

\* [6/6] one iteration of `for env_name, env_id in env_ids.items()`
MainExportEnvironment ==
    /\ run.pc = "export_envs"
    /\ run.idx < Len(run.env_ids)
    /\ \E o \in RequestOutcomes :
          LET env_name == run.env_ids[run.idx + 1][1]
              doc == [id |-> "e", name |-> env_name,
                      values |-> CreatePayload(env_name, DefaultHost(env_name)).values]
              r == ExportEnvironment(doc, o)
              st == [run EXCEPT !.calls = Append(@, "export_environment")]
          IN  run' = IF r.raised # "none" THEN Crash(st, "export", r.raised)
                     ELSE [st EXCEPT !.idx = @ + 1,
                                     !.exported = Append(@, env_name)]
    /\ UNCHANGED <<reqVars, pollVars, setupVars, remoteVars, upsertVars, envVars, exportVars, probeVars>>

\* the summary; main returns and the interpreter exits with code 0
MainSummary ==
    /\ \/ run.pc = "summary"
       \/ run.pc = "export_envs" /\ run.idx = Len(run.env_ids)
    /\ run' = [run EXCEPT !.pc = "exited", !.exit_code = 0]
    /\ UNCHANGED <<reqVars, pollVars, setupVars, remoteVars, upsertVars, envVars, exportVars, probeVars>>

NextMain ==
    \/ MainValidate
    \/ MainWorkspace
    \/ MainSpec
    \/ MainCollection
    \/ MainEnvironments
    \/ MainJwt
    \/ MainExportCollection
    \/ MainExportEnvironment
    \/ MainSummary

SpecMain == InitMain /\ [][NextMain]_vars

(***************************************************************************)
(* SpecProbe: get_or_create_workspace(workspace_id, name) with an ID, on   *)
(* every script of answers to the probe                                    *)
(***************************************************************************)
\* the account holds the workspace the ID names
ProbeAccount == <<[id |-> 1, name |-> WorkspaceNameOf("Refund API")]>>

InitProbe ==
    /\ probeScript \in [1..max_retries -> ProbeResponses]
    /\ \E name \in {<<>>, WorkspaceNameOf("Refund API")} :
          pb = [PbStart EXCEPT !.workspace_id = Id(1), !.name = name]
    /\ workspaces = ProbeAccount
    /\ collections = <<>>
    /\ nextId = Len(ProbeAccount) + 1
    /\ last = NoCall
    /\ IdleReq
    /\ IdlePoll
    /\ IdleSetup
    /\ IdleUpsert
    /\ IdleEnv
    /\ IdleExport
    /\ IdleMain

\* line 185: workspace = self.get_workspace(workspace_id)
ProbeGet ==
    /\ pb.pc = "start"
    /\ pb.workspace_id # None
    /\ LET r == ProbeWorkspace(probeScript)
       IN  pb' = [pb EXCEPT !.pc = IF r.raised # "none" THEN "raised" ELSE "probed",
                            !.probe = CASE r.raised # "none" -> "raised"
                                        [] r.workspace -> "resolved"
                                        [] OTHER -> "absent",
                            !.gets = r.calls,
                            !.calls = <<"GET /workspaces/{id}">>,
                            !.raised = r.raised]
    /\ UNCHANGED <<probeScript, remoteVars>>
    /\ UNCHANGED <<reqVars, pollVars, setupVars, upsertVars, envVars, exportVars, mainVars>>

\* lines 186-187: if workspace: return workspace_id
ProbeReuse ==
    /\ pb.pc = "probed"
    /\ pb.probe = "resolved"
    /\ pb' = [pb EXCEPT !.pc = "returned", !.ret = pb.workspace_id]
    /\ UNCHANGED <<probeScript, remoteVars>>
    /\ UNCHANGED <<reqVars, pollVars, setupVars, upsertVars, envVars, exportVars, mainVars>>

\* lines 188-193: warn, create a workspace and return its id
ProbeCreate ==
    /\ pb.pc = "probed"
    /\ pb.probe = "absent"
    /\ \E oCreate \in RequestOutcomes :
          LET made == CreateWorkspace(workspaces, nextId, NameOrFallback(pb.name), oCreate)
          IN  /\ pb' = [pb EXCEPT !.pc = IF made.raised # "none" THEN "raised"
                                          ELSE "returned",
                                  !.calls = @ \o made.calls,
                                  !.ret = made.id,
                                  !.raised = made.raised,
                                  !.logs = {"warning: workspace not found, creating new"}]
              /\ workspaces' = made.workspaces
              /\ nextId' = IF made.workspaces # workspaces THEN nextId + 1 ELSE nextId
    /\ UNCHANGED <<probeScript, collections, last>>
    /\ UNCHANGED <<reqVars, pollVars, setupVars, upsertVars, envVars, exportVars, mainVars>>

NextProbe ==
    \/ ProbeGet
    \/ ProbeReuse
    \/ ProbeCreate

SpecProbe == InitProbe /\ [][NextProbe]_vars

(***************************************************************************)
(* Claims about _request (checked under SpecReq)                           *)
(***************************************************************************)
\* the first n scripted responses are all 429
AllRateLimited(n) == \A i \in 1..n : IsRateLimited(script[i])

\* the first n scripted responses are all non-429 HTTP errors
AllHTTPErrors(n) == \A i \in 1..n : IsHTTPError(script[i])

\* C1: 429 responses never count toward the retry budget: for every n >= 0, a
\* call whose first n responses are 429 and whose next response is 200 sleeps
\* after each 429 (for the Retry-After time), issues n + 1 calls and returns
\* the parsed body of the 200.
C1_RateLimitOutsideBudget ==
    \A n \in 0..(MaxScript - 1) :
        (Done /\ AllRateLimited(n) /\ script[n + 1].status = 200)
            => /\ rq.pc = "returned"
               /\ rq.calls = n + 1
               /\ rq.sleeps = [i \in 1..n |-> RetryAfterOf(script[i])]
               /\ rq.result = BodyOf(script[n + 1])

\* C2: on responses without a 429 _request issues at most 3 HTTP calls; when
\* the k-th response (k <= 3) is the first success it returns that response's
\* body after exactly k - 1 backoff sleeps; when the first three responses are
\* all non-429 HTTP errors it raises after the third call, with no fourth call
\* and no sleep after the third failure.
C2_RetryBudget ==
    /\ (\A i \in 1..3 : IsHTTPError(script[i]) \/ IsSuccess(script[i]))
           => rq.calls <= 3
    /\ \A k \in 1..3 :
           (Done /\ AllHTTPErrors(k - 1) /\ IsSuccess(script[k]))
               => /\ rq.pc = "returned"
                  /\ rq.result = BodyOf(script[k])
                  /\ rq.calls = k
                  /\ Len(rq.sleeps) = k - 1
    /\ (Done /\ AllHTTPErrors(3))
           => /\ rq.pc = "raised"
              /\ rq.exc = "HTTPError"
              /\ rq.calls = 3
              /\ Len(rq.sleeps) = 2

\* [500, 500, 200]: two backoff sleeps, then the body of the 200
C2_Witness ==
    /\ Done
    /\ script[1].status = 500 /\ script[2].status = 500
    /\ script[3].status = 200 /\ script[3].text # ""
    /\ rq.pc = "returned"
    /\ rq.sleeps = <<1, 2>>
    /\ rq.result = BodyOf(script[3])

\* C4: an attempt that obtains no HTTP response is treated like a 5xx: it is
\* retried with backoff, and the failure reaches the caller only once the
\* 3-attempt budget is used up.
C4_NetworkFailureRetried ==
    (rq.pc = "raised" /\ rq.exc = "ConnectionError") => rq.calls >= 3

\* C5: when every attempt ends in a non-429 HTTP error, _request raises (after
\* logging the error) only without suppress_errors; with suppress_errors it
\* returns to the caller without an exception.
C5_SuppressedErrorsNotRaised ==
    (Done /\ AllHTTPErrors(3))
        => IF suppress_errors
           THEN rq.pc = "returned"
           ELSE rq.pc = "raised" /\ rq.logged

\* every iteration that does not leave _request sleeps once, so sleeps[i] is
\* the sleep taken after the i-th response; the backoff sleeps are those taken
\* after a non-429 HTTP error
RECURSIVE BackoffSleepsUpTo(_)
BackoffSleepsUpTo(n) ==
    IF n = 0 THEN <<>>
    ELSE IF IsHTTPError(script[n])
    THEN Append(BackoffSleepsUpTo(n - 1), rq.sleeps[n])
    ELSE BackoffSleepsUpTo(n - 1)

BackoffSleeps == BackoffSleepsUpTo(Len(rq.sleeps))

\* C19: within one call the backoff sleeps after non-429 HTTP errors are 1s,
\* 2s, 4s in that order (the k-th one lasts 2^(k-1) seconds) however many 429
\* responses are interleaved, and the sleep after a 429 is the Retry-After
\* value, or 60s without the header.
C19_SleepDurations ==
    /\ \A k \in 1..Len(BackoffSleeps) : BackoffSleeps[k] = 2 ^ (k - 1)
    /\ \A i \in 1..Len(rq.sleeps) :
           IsRateLimited(script[i]) => rq.sleeps[i] = RetryAfterOf(script[i])

\* C20: _request issues at most 3 HTTP calls whatever the statuses are, and
\* when the third response is a 429 it returns the empty mapping without
\* raising: the same result as a success with an empty body.
C20_ThreeCallsWhatever ==
    /\ rq.calls <= 3
    /\ (Done /\ rq.calls = 3 /\ IsRateLimited(script[3]))
           => /\ rq.pc = "returned"
              /\ rq.exc = "none"
              /\ rq.result = EmptyMap
              /\ rq.result = BodyOf([status |-> 200, retryAfter |-> NoHeader,
                                     text |-> ""])

\* [500, 429, 429]: the third response is a 429 and {} comes back
C20_Witness ==
    /\ Done
    /\ rq.calls = 3
    /\ script[1].status = 500
    /\ IsRateLimited(script[2]) /\ IsRateLimited(script[3])
    /\ rq.pc = "returned"
    /\ rq.result = EmptyMap

(***************************************************************************)
(* Claims about poll_task (checked under SpecPoll)                         *)
(***************************************************************************)
\* the fetch showed status completed or failed
Terminal(f) == f.outcome = "ok" /\ f.task.status \in {"completed", "failed"}

\* the fetch returned and showed a status that is not terminal (none included)
NonTerminal(f) == f.outcome \notin Raising /\ ~Terminal(f)

FirstToStop(k) == \A j \in 1..(k - 1) : NonTerminal(pollScript[j])

\* C8: poll_task ends after at most max_attempts fetches: it returns the task
\* result at the first fetch showing completed, fails with the task-failed
\* error carrying the result at the first fetch showing failed, fails with the
\* timeout error exactly when max_attempts fetches all showed a non-terminal
\* status, and fetches nothing after a terminal status.
C8_PollBounded ==
    /\ pl.fetches <= max_attempts
    /\ \A k \in 1..(pl.fetches - 1) : ~Terminal(pollScript[k])
    /\ PollDone \/ ENABLED NextPoll
    /\ PollDone =>
        /\ \A k \in 1..max_attempts :
               (FirstToStop(k) /\ Terminal(pollScript[k]))
                   => /\ pl.fetches = k
                      /\ pl.result = pollScript[k].task
                      /\ IF pollScript[k].task.status = "completed"
                         THEN pl.pc = "returned"
                         ELSE pl.pc = "raised" /\ pl.exc = "TaskFailed"
        /\ (pl.exc = "TaskTimeout") <=> FirstToStop(max_attempts + 1)
        /\ (pl.exc = "TaskTimeout") => pl.fetches = max_attempts

\* three fetches without a terminal status: the timeout
C8_Witness ==
    /\ PollDone
    /\ max_attempts = 3
    /\ pl.fetches = 3
    /\ pl.exc = "TaskTimeout"

(***************************************************************************)
(* Claims about setup_all_environments (checked under SpecSetup)           *)
(***************************************************************************)
\* the entries of the server list that the keyword chain gives to `tier`
EntriesOf(tier) == {i \in 1..Len(servers) : TierOf(servers[i].description) = tier}

FirstOf(S) == CHOOSE i \in S : \A j \in S : i <= j
LastOf(S) == CHOOSE i \in S : \A j \in S : i >= j

\* C6 (as stated): when two or more entries of the server list match the same
\* tier, the host used for the tier is the one of the first such entry.
C6_FirstMatchWins ==
    su.pc = "mapped" =>
        \A tier \in {"Dev", "QA", "UAT", "Prod"} :
            EntriesOf(tier) # {}
                => DictGet(su.env_mapping, tier)
                       = HostOf(servers[FirstOf(EntriesOf(tier))].url)

\* C6 (amended): when two or more entries of the server list match the same
\* tier, the host used for the tier is the one extracted from the last such
\* entry in list order; earlier matching entries do not change it.
C6_LastMatchWins ==
    su.pc = "mapped" =>
        \A tier \in {"Dev", "QA", "UAT", "Prod"} :
            EntriesOf(tier) # {}
                => /\ DictHas(su.env_mapping, tier)
                   /\ DictGet(su.env_mapping, tier)
                          = HostOf(servers[LastOf(EntriesOf(tier))].url)

\* two entries of one tier with different hosts, mapped
C6_Witness ==
    /\ su.pc = "mapped"
    /\ \E tier \in {"Dev", "QA", "UAT", "Prod"} :
           /\ Cardinality(EntriesOf(tier)) >= 2
           /\ HostOf(servers[FirstOf(EntriesOf(tier))].url)
                  # HostOf(servers[LastOf(EntriesOf(tier))].url)
           /\ DictGet(su.env_mapping, tier)
                  = HostOf(servers[LastOf(EntriesOf(tier))].url)

(***************************************************************************)
(* Claims about the handlers (checked under Spec)                          *)
(***************************************************************************)
Named(seq, name) == {i \in 1..Len(seq) : seq[i].name = name}

\* C3: across repeated runs with the same spec title and no workspace ID
\* supplied, at most one workspace of a given name ever exists: the workspace
\* step finds the already-listed workspace of the target name and issues no
\* workspace-create call for it.
C3_WorkspaceFoundBeforeCreate ==
    [][(/\ last'.op = "get_or_create_workspace"
        /\ last'.workspace_id = None
        /\ Named(workspaces, last'.name) # {})
           => /\ \A i \in 1..Len(last'.calls) : last'.calls[i] # "POST /workspaces"
              /\ workspaces' = workspaces
              /\ Cardinality(Named(workspaces', last'.name)) <= 1]_vars

\* the collections of workspace `ws` named `name`, by position
NamedIn(cols, ws, name) ==
    {i \in 1..Len(cols) : cols[i].ws = ws.n /\ cols[i].name = name}

Issued(call, endpoint) == \E i \in 1..Len(call.calls) : call.calls[i] = endpoint

\* C7: script injection is idempotent over the remote collection: after one
\* successful add_jwt_prerequest_script call on a collection, a further call on
\* the same collection issues no update (PUT) and leaves the collection as it is.
C7_InjectionIdempotent ==
    [][(/\ last.op = "add_jwt_prerequest_script"
        /\ last.raised = "none"
        /\ last.outcome \in {"skipped", "updated"}
        /\ last'.op = "add_jwt_prerequest_script"
        /\ last'.collection_id.n = last.collection_id.n)
           => /\ ~Issued(last', "PUT /collections/{id}")
              /\ collections' = collections]_vars

\* C9: when the workspace holds a collection of exactly that name,
\* generate_collection returns the identifier of the first such collection and
\* issues neither a generation request nor a task poll, so that no second
\* collection of the name comes to exist in the workspace.
C9_ExistingCollectionReused ==
    [][(/\ last'.op = "generate_collection"
        /\ last'.raised = "none"
        /\ NamedIn(collections, last'.workspace_id, last'.name) # {})
           => /\ last'.ret = Uid(collections[FirstOf(NamedIn(collections,
                                      last'.workspace_id, last'.name))].id)
              /\ ~Issued(last', "POST /specs/{id}/generations/collection")
              /\ ~Issued(last', "GET {task_url}")
              /\ collections' = collections]_vars

\* C10: when no collection of the name is found, generate_collection handles
\* both response shapes: from a synchronous response it returns the embedded
\* collection's id without polling; from an asynchronous one it polls the URL
\* of the response and, when the task completes, returns the id of the first
\* listed resource, or, when none is listed, logs an error and returns an
\* absent identifier without raising.
C10_BothResponseShapes ==
    (last.op = "generate_collection" /\ last.existing = None) =>
        /\ last.response.shape = "sync"
               => /\ last.ret = last.response.collection
                  /\ last.raised = "none"
                  /\ last.polled = None
                  /\ ~Issued(last, "GET {task_url}")
        /\ last.response.shape = "async"
               => /\ last.polled = last.response.url
                  /\ last.task.pc = "returned"
                         => /\ last.raised = "none"
                            /\ IF last.task.resources = <<>>
                               THEN /\ last.ret = None
                                    /\ "error: no collection in task result" \in last.logs
                               ELSE last.ret = last.task.resources[1]

\* an asynchronous generation whose task lists two resources
C10_Witness ==
    /\ last.op = "generate_collection"
    /\ last.existing = None
    /\ last.response.shape = "async"
    /\ Issued(last, "GET {task_url}")
    /\ last.task.pc = "returned"
    /\ Len(last.task.resources) = 2
    /\ last.ret = last.task.resources[1]
    /\ \E i \in 1..Len(collections) : Id(collections[i].id) = last.ret

(***************************************************************************)
(* Claims about upsert_spec (checked under SpecUpsert)                     *)
(***************************************************************************)
\* the specs of workspace `ws` named `name`, by position
SpecsNamed(sps, ws, name) ==
    {i \in 1..Len(sps) : sps[i].ws = ws.n /\ sps[i].name = name}

PostsOf(call) ==
    Cardinality({i \in 1..Len(call.calls) : call.calls[i] = "POST /specs?workspaceId"})

\* C11: when the workspace holds a spec of the name derived from the file,
\* upsert_spec returns the first such spec's id with the flag false and issues
\* no create call; otherwise it issues exactly one create call and returns
\* the id of the spec created with the flag true. The flag is true exactly
\* when a create call was issued.
C11_UpsertFindsOrCreates ==
    [][(up'.op = "upsert_spec" /\ up'.raised = "none")
           => /\ IF SpecsNamed(specs, up'.workspace_id, up'.name) # {}
                 THEN /\ up'.ret = Id(specs[FirstOf(SpecsNamed(specs,
                                          up'.workspace_id, up'.name))].id)
                      /\ ~up'.is_new
                      /\ PostsOf(up') = 0
                      /\ specs' = specs
                 ELSE /\ PostsOf(up') = 1
                      /\ up'.is_new
                      /\ Len(specs') = Len(specs) + 1
                      /\ up'.ret = Id(specs'[Len(specs')].id)
              /\ up'.is_new <=> PostsOf(up') > 0]_vars

(***************************************************************************)
(* Claims about the environment manager (checked under SpecEnv)            *)
(***************************************************************************)
KeywordOf(tier) ==
    CASE tier = "Prod" -> KwProd
      [] tier = "UAT" -> KwUat
      [] tier = "QA" -> KwQa
      [] tier = "Dev" -> KwDev

\* the servers whose description contains the keyword of the tier
Matching(tier) ==
    {i \in 1..Len(servers) :
        Contains(ToLower(servers[i].description), KeywordOf(tier))}

Tiers == {"Dev", "QA", "UAT", "Prod"}

EntriesFor(tier) == {i \in 1..Len(ev.trace) : ev.trace[i].env_name = tier}

SetupEnded == ev.pc \in {"returned", "raised"}

\* every tier is processed exactly once
C12_ProcessedOnce == \A tier \in Tiers : Cardinality(EntriesFor(tier)) = 1

\* update when an environment of the name exists, create when none does
C12_UpdateOrCreate ==
    \A i \in 1..Len(ev.trace) :
        ev.trace[i].op = IF ev.trace[i].listed THEN "update" ELSE "create"

\* the host of a server whose description has the keyword, else the default
C12_HostOfTier ==
    \A i \in 1..Len(ev.trace) :
        LET tier == ev.trace[i].env_name
        IN  IF Matching(tier) # {}
            THEN \E j \in Matching(tier) : ev.trace[i].host = HostOf(servers[j].url)
            ELSE ev.trace[i].host = DefaultHost(tier)

\* the returned mapping holds the tiers whose update or creation gave an id
C12_ReturnedIds ==
    /\ \A i \in 1..Len(ev.trace) :
           ev.trace[i].env_id # None
               => /\ DictHas(ev.env_ids, ev.trace[i].env_name)
                  /\ DictGet(ev.env_ids, ev.trace[i].env_name) = ev.trace[i].env_id
    /\ \A k \in 1..Len(ev.env_ids) :
           \E i \in 1..Len(ev.trace) :
               /\ ev.trace[i].env_name = ev.env_ids[k][1]
               /\ ev.trace[i].env_id = ev.env_ids[k][2]

\* C12: for any server list, setup_all_environments processes each of the
\* tiers Dev, QA, UAT, Prod exactly once, by a find followed by an update when
\* an environment of the name exists and by a create when none does, with the
\* host of the server whose description contains the tier's keyword and the
\* default host for a tier no server matches, and returns the tiers whose
\* update or creation gave an id, mapped to that id.
C12_SetupAllTiers ==
    SetupEnded => /\ C12_ProcessedOnce
                  /\ C12_UpdateOrCreate
                  /\ C12_HostOfTier
                  /\ C12_ReturnedIds

SchemaKeys ==
    <<"base_url", "client_id", "client_secret", "token_url", "jwt_token", "token_expiry">>

\* exactly the six keys, the two secrets flagged, base_url = https://{host}/v2
CompleteSet(values, host) ==
    /\ [i \in 1..Len(values) |-> values[i].key] = SchemaKeys
    /\ \A i \in 1..Len(values) :
           values[i].type = "secret" <=> values[i].key \in {"client_secret", "jwt_token"}
    /\ values[1].value = <<"h", "t", "t", "p", "s", ":", "/", "/">> \o host \o <<"/", "v2">>

Writes == {i \in 1..Len(ev.trace) : ev.trace[i].op \in {"update", "create"}}

\* C15: every payload written by create_environment or update_environment
\* has exactly the six keys base_url, client_id, client_secret, token_url,
\* jwt_token, token_expiry, with client_secret and jwt_token (and only those)
\* flagged secret and base_url = https://{host}/v2; create and update write
\* the same set for the same tier and host, and an updated environment holds
\* that set whatever it held before.
C15_CompleteVariableSet ==
    /\ \A i \in Writes :
           LET w == ev.trace[i]
           IN  /\ w.payload.name = w.env_name
               /\ CompleteSet(w.payload.values, w.host)
               /\ w.payload = IF w.op = "update"
                              THEN CreatePayload(w.env_name, w.host)
                              ELSE UpdatePayload(w.env_name, w.host)
    /\ \A k \in 1..Len(environments) :
           \/ environments[k].values = OldValues
           \/ \E host \in {DefaultHost(environments[k].name)}
                      \cup {ev.env_mapping[j][2] : j \in 1..Len(ev.env_mapping)} :
                  CompleteSet(environments[k].values, host)

\* Prod, which held other variables, was updated and Dev or QA was created
C15_Witness ==
    /\ ev.pc = "returned"
    /\ \E i \in Writes :
           /\ ev.trace[i].op = "update"
           /\ ev.trace[i].env_name = "Prod"
           /\ ev.trace[i].host = <<"a">>
           /\ \E k \in 1..Len(environments) :
                  /\ environments[k].id = ev.trace[i].existing_id.n
                  /\ environments[k].values = ev.trace[i].payload.values
                  /\ environments[k].values # OldValues
    /\ \E i \in Writes : ev.trace[i].op = "create" /\ ev.trace[i].env_id # None

(***************************************************************************)
(* Claims about the script injector (checked under Spec)                   *)
(***************************************************************************)
\* the script of the event mentions the token-cache variable jwt_token
ReferencesToken(e) ==
    \E l \in 1..Len(e.script.exec) :
        \E k \in 1..Len(e.script.exec[l]) : e.script.exec[l][k] = "jwt_token"

TokenPrerequests(events) ==
    {i \in 1..Len(events) : events[i].listen = "prerequest" /\ ReferencesToken(events[i])}

Prerequests(events) == {i \in 1..Len(events) : events[i].listen = "prerequest"}

OtherListeners(events) == SelectSeq(events, LAMBDA e : e.listen # "prerequest")

\* C13: when the fetched collection has no prerequest event that references
\* the token-cache variable, add_jwt_prerequest_script writes the collection
\* back in exactly one update whose event list has exactly one prerequest
\* event, the token-caching script, with the events of other listener types
\* unchanged and in their order and every other field of the document as
\* fetched.
C13_WholeCollectionWrittenBack ==
    (/\ last.op = "add_jwt_prerequest_script"
     /\ last.fetched
     /\ TokenPrerequests(last.got[1].event) = {})
        => /\ Len(last.puts) = 1
           /\ Cardinality({i \in 1..Len(last.calls) :
                              last.calls[i] = "PUT /collections/{id}"}) = 1
           /\ LET doc == last.puts[1]
              IN  /\ Cardinality(Prerequests(doc.event)) = 1
                  /\ \A i \in Prerequests(doc.event) :
                         /\ ReferencesToken(doc.event[i])
                         /\ doc.event[i].script.exec
                                = Split(JWT_PREREQUEST_SCRIPT, "\n")
                  /\ OtherListeners(doc.event) = OtherListeners(last.got[1].event)
                  /\ [doc EXCEPT !.event = <<>>] = [last.got[1] EXCEPT !.event = <<>>]

\* an update that replaced an earlier prerequest event and kept a test event
C13_Witness ==
    /\ last.op = "add_jwt_prerequest_script"
    /\ last.fetched
    /\ last.outcome = "updated"
    /\ Len(last.puts) = 1
    /\ Len(OtherListeners(last.puts[1].event)) = 2
    /\ Cardinality(Prerequests(last.got[1].event)) = 1
    /\ Cardinality(Prerequests(last.puts[1].event)) = 1
    /\ collections[CollectionAt(collections, last.collection_id)] = last.puts[1]

(***************************************************************************)
(* Claims about export_environment (checked under SpecExport)              *)
(***************************************************************************)
\* C14: for every fetched environment the exported document has the same
\* entries in the same order, with the empty string as the value of every
\* entry flagged secret and the original value of every other entry; so two
\* environments that differ only in the values of secret entries give
\* identical export files.
C14_SecretsRedacted ==
    /\ \A k \in 1..Len(ex.files) :
           ex.files[k].fetched
               => LET in == ex.docs[k].values
                      out == ex.files[k].env.values
                  IN  /\ Len(out) = Len(in)
                      /\ \A i \in 1..Len(in) :
                             /\ out[i].key = in[i].key
                             /\ out[i].type = in[i].type
                             /\ out[i].enabled = in[i].enabled
                             /\ out[i].value = IF in[i].type = "secret"
                                               THEN <<>> ELSE in[i].value
    /\ (Len(ex.files) = 2 /\ ex.files[1].fetched /\ ex.files[2].fetched)
           => ex.files[1].text = ex.files[2].text

\* two environments with different secret values, both exported
C14_Witness ==
    /\ Len(ex.files) = 2
    /\ ex.files[1].fetched /\ ex.files[2].fetched
    /\ ex.docs[1] # ex.docs[2]
    /\ \E i \in 1..Len(ex.docs[1].values) :
           /\ ex.docs[1].values[i].type = "secret"
           /\ ex.docs[1].values[i].key = "api_key"
           /\ ex.docs[1].values[i].value # <<>>
           /\ ex.files[1].env.values[i].value = <<>>
    /\ \E i \in 1..Len(ex.docs[1].values) :
           /\ ex.docs[1].values[i].type # "secret"
           /\ ex.docs[1].values[i].value # <<>>
    /\ ex.files[1].text = ex.files[2].text

(***************************************************************************)
(* Claims about main() (checked under SpecMain)                            *)
(***************************************************************************)
\* the API key, the spec argument or the spec file is missing
ConfigError == ~run.cfg.api_key \/ ~run.cfg.spec \/ ~run.cfg.exists

Exited == run.pc = "exited"

\* C16: a configuration error is fatal before any network activity: with the
\* API key, the spec argument or the spec file missing, the run exits with
\* code 1 and has issued no request to the vendor at any point.
C16_ConfigErrorsFatal ==
    ConfigError => /\ run.calls = <<>>
                   /\ run.pc \in {"validate", "exited"}
                   /\ Exited => run.exit_code = 1

\* the key is set and the spec is named, but the file does not exist
C16_Witness ==
    /\ Exited
    /\ run.cfg.api_key /\ run.cfg.spec /\ ~run.cfg.exists
    /\ run.exit_code = 1
    /\ run.calls = <<>>

Called(handler) == \E i \in 1..Len(run.calls) : run.calls[i] = handler

\* the export wrote a file for the collection and for every environment
ExportedAll ==
    /\ run.collection_id # None => \E i \in 1..Len(run.exported) :
                                       run.exported[i] = "collection.json"
    /\ \A k \in 1..Len(run.env_ids) :
           \E i \in 1..Len(run.exported) : run.exported[i] = run.env_ids[k][1]

\* C17: an exception raised while injecting the auth script is caught and
\* logged as a warning, and the run still exports the collection and every
\* environment obtained earlier and ends with exit code 0.
C17_InjectionBestEffort ==
    (Exited /\ "jwt" \in run.failed /\ ExportEnabled(run.cfg))
        => /\ "Could not add JWT script" \in run.warnings
           /\ ExportedAll
           /\ run.exit_code = 0

\* C18: a request of the environment-setup step or of the export step that
\* fails after its retries does not end the run: the run continues with the
\* remaining steps and exits with code 0; only failures of the collection
\* generation or of its task end the run.
C18_StepFailuresNotPropagated ==
    Exited => /\ run.failed \cap {"environments", "export"} # {}
                     => run.exit_code = 0
              /\ (~ConfigError /\ run.exit_code # 0)
                     => "collection" \in run.failed

\* position of the first call of `handler` in the run, 0 when it was not called
FirstCall(handler) ==
    IF Called(handler)
    THEN CHOOSE i \in 1..Len(run.calls) :
            /\ run.calls[i] = handler
            /\ \A j \in 1..(i - 1) : run.calls[j] # handler
    ELSE 0

\* generate_collection returned, and what it returned is None
GenerationAbsent ==
    /\ Called("generate_collection")
    /\ "collection" \notin run.failed
    /\ run.collection_id = None

\* the collection is fetched or updated only by the injection and by the
\* collection export, each with the identifier generation returned and after it
CollectionStepsAfterGeneration ==
    \A h \in {"add_jwt_prerequest_script", "export_collection"} :
        Called(h) => /\ run.collection_id # None
                     /\ FirstCall("generate_collection") > 0
                     /\ FirstCall("generate_collection") < FirstCall(h)

\* every tier has an identifier in env_ids
AllTiersSetUp ==
    \A t \in 1..Len(DefaultTiers) :
        \E k \in 1..Len(run.env_ids) : run.env_ids[k][1] = DefaultTiers[t]

\* a file was written for every tier
AllTiersExported ==
    \A t \in 1..Len(DefaultTiers) :
        \E i \in 1..Len(run.exported) : run.exported[i] = DefaultTiers[t]

\* C22: the injection and the collection export are attempted only with an
\* identifier that generation returned and only after generation; a run whose
\* generation returns no identifier issues no collection fetch or update,
\* still sets up all environments, exports each of them unless export is
\* disabled, and ends with exit code 0.
C22_AbsentCollectionRunCompletes ==
    /\ CollectionStepsAfterGeneration
    /\ (Exited /\ GenerationAbsent)
          => /\ ~Called("add_jwt_prerequest_script")
             /\ ~Called("export_collection")
             /\ Called("setup_all_environments")
             /\ AllTiersSetUp
             /\ ExportEnabled(run.cfg) => AllTiersExported
             /\ run.exit_code = 0

(***************************************************************************)
(* Claims about the workspace probe (checked under SpecProbe)              *)
(***************************************************************************)
ProbeEnded == pb.pc \in {"returned", "raised"}

\* the probe's _request invocation ended by raising HTTPError: an HTTP error
\* status persisted through the last attempt
ErrorPersisted ==
    LET st == RunRequest(probeScript, FALSE)
    IN  st.pc = "raised" /\ st.exc = "HTTPError"

\* the probe's _request invocation returned the body of a 2xx answer that has
\* no workspace entry
SuccessWithoutEntry ==
    LET st == RunRequest(probeScript, FALSE)
    IN  /\ st.pc = "returned"
        /\ IsSuccess(probeScript[st.calls])
        /\ st.result = BodyOf(probeScript[st.calls])
        /\ ~HasWorkspace(st.result)

\* C21: get_or_create_workspace with a workspace ID issues a workspace-create
\* call exactly when get_workspace(id) yields None; get_workspace yields None
\* for every HTTP error status that lasts through the retry attempts (401, 404
\* or 5xx alike) and for a 2xx answer without a workspace entry; when the
\* probe finds the workspace, the supplied ID is returned unchanged and no
\* create call is issued.
C21_CreateIffProbeAbsent ==
    ProbeEnded
        => /\ Issued(pb, "POST /workspaces") <=> pb.probe = "absent"
           /\ (ErrorPersisted \/ SuccessWithoutEntry) => pb.probe = "absent"
           /\ pb.probe = "resolved"
                 => /\ pb.ret = pb.workspace_id
                    /\ pb.raised = "none"
                    /\ workspaces = ProbeAccount

\* a 401 lasted through the three attempts and a workspace was created
C21_Witness ==
    /\ pb.pc = "returned"
    /\ \A i \in 1..max_retries : probeScript[i].status = 401
    /\ pb.gets = max_retries
    /\ pb.probe = "absent"
    /\ Issued(pb, "POST /workspaces")
    /\ Len(workspaces) = Len(ProbeAccount) + 1
    /\ pb.ret = Id(Len(ProbeAccount) + 1)

(***************************************************************************)
(* Claims about the keyword priority (checked under SpecSetup)             *)
(***************************************************************************)
\* prod > uat > qa > dev
Rank(tier) ==
    CASE tier = "Prod" -> 1
      [] tier = "UAT" -> 2
      [] tier = "QA" -> 3
      [] tier = "Dev" -> 4

\* the tiers whose keyword the lower-cased description of entry i contains
KeywordsIn(i) ==
    {t \in Tiers : Contains(ToLower(servers[i].description), KeywordOf(t))}

\* entry i counts for `tier`: it is the highest-priority keyword it contains
CountsFor(i, tier) ==
    /\ tier \in KeywordsIn(i)
    /\ \A u \in KeywordsIn(i) : Rank(tier) <= Rank(u)

\* the entries among the first n that count for `tier`
CountingFor(tier, n) == {i \in 1..n : CountsFor(i, tier)}

\* the mapping after n entries: a tier is present exactly when an entry counts
\* for it, with the host of the latest such entry
MappedByPriority(n) ==
    \A tier \in Tiers :
        IF CountingFor(tier, n) = {}
        THEN ~DictHas(su.env_mapping, tier)
        ELSE /\ DictHas(su.env_mapping, tier)
             /\ DictGet(su.env_mapping, tier)
                    = HostOf(servers[LastOf(CountingFor(tier, n))].url)

\* the mapping the environment loop runs over: the four tiers, each once
ExactlyFourTiers ==
    /\ {su.env_mapping[k][1] : k \in 1..Len(su.env_mapping)} = Tiers
    /\ Len(su.env_mapping) = Cardinality(Tiers)

\* C23: setup_all_environments gives each server entry to at most one tier,
\* the one of the highest-priority keyword (prod > uat > qa > dev) that its
\* lower-cased description contains; an entry whose description contains no
\* keyword changes no tier; and the tiers of the resulting mapping are always
\* exactly Dev, QA, UAT and Prod.
C23_KeywordPriority ==
    /\ su.pc = "servers" => MappedByPriority(su.idx)
    /\ su.pc = "mapped"
          => /\ ExactlyFourTiers
             /\ \A tier \in Tiers :
                    DictGet(su.env_mapping, tier)
                        = IF CountingFor(tier, Len(servers)) = {}
                          THEN DefaultHost(tier)
                          ELSE HostOf(servers[LastOf(CountingFor(tier, Len(servers)))].url)

\* an entry with two keywords that counted for Prod only, next to an entry
\* without any keyword
C23_Witness ==
    /\ su.pc = "mapped"
    /\ \E i, j \in 1..Len(servers) :
          /\ KeywordsIn(i) = {"Prod", "UAT"}
          /\ HostOf(servers[i].url) # <<>>
          /\ DictGet(su.env_mapping, "Prod") = HostOf(servers[i].url)
          /\ DictGet(su.env_mapping, "UAT") = DefaultHost("UAT")
          /\ KeywordsIn(j) = {}
          /\ servers[j].description # <<>>

====
